---- MODULE Spec2Model ----
(***************************************************************************)
(* CHIP-8 emulator (chip8/src) and the micro-py CHIP-8 backend             *)
(* (micro-py/src/backends/chip8.rs).                                       *)
(*                                                                         *)
(* The CPU struct is the record cpu; every op_* method is an operator      *)
(* from a CPU record to a CPU record.  The Chip8Backend struct is a record *)
(* threaded through the compile_* operators.  Numbers are written in       *)
(* decimal; Op(a, b, c, d) builds the 16-bit word with nibbles a b c d.    *)
(***************************************************************************)
EXTENDS Integers, Sequences, FiniteSets

\* ------------------------------------------------------------------------
\* Bounds of the model
\* ------------------------------------------------------------------------
\* run_emulation's loop is followed for at most this many iterations
MaxCycles == 36

\* ------------------------------------------------------------------------
\* chip8/src/constants.rs (not part of the sources at hand; values as the
\* specification documents them)
\* ------------------------------------------------------------------------
MEMORY_SIZE == 4096
PROGRAM_START == 512
FONT_START == 80
SCREEN_WIDTH == 64
SCREEN_HEIGHT == 32
FONT_SET ==
  << 240, 144, 144, 144, 240,    \* glyph 0
     32, 96, 32, 32, 112,        \* glyph 1
     240, 16, 240, 128, 240,     \* glyph 2
     240, 16, 240, 16, 240,      \* glyph 3
     144, 144, 240, 16, 16,      \* glyph 4
     240, 128, 240, 16, 240,     \* glyph 5
     240, 128, 240, 144, 240,    \* glyph 6
     240, 16, 32, 64, 64,        \* glyph 7
     240, 144, 240, 144, 240,    \* glyph 8
     240, 144, 240, 16, 240,     \* glyph 9
     240, 144, 240, 144, 144,    \* glyph A
     224, 144, 224, 144, 224,    \* glyph B
     240, 128, 128, 128, 240,    \* glyph C
     224, 144, 144, 144, 224,    \* glyph D
     240, 128, 240, 128, 240,    \* glyph E
     240, 128, 240, 128, 128 >>  \* glyph F

\* ------------------------------------------------------------------------
\* Machine words
\* ------------------------------------------------------------------------
\* the 16-bit word whose hexadecimal digits are a b c d
Op(a, b, c, d) == a * 4096 + b * 256 + c * 16 + d

\* the two bytes of a list of 16-bit words, big-endian
WordsToBytes(ws) ==
  [i \in 1..(2 * Len(ws)) |->
     IF i % 2 = 1 THEN ws[(i + 1) \div 2] \div 256 ELSE ws[i \div 2] % 256]

\* a `let` binding: v is evaluated once and F is applied to its value
Bind(v, F(_)) == CHOOSE r \in {F(x) : x \in {v}} : TRUE

\* Option::None of waiting_for_key; Some(x) is the register index x
None == -1

\* ------------------------------------------------------------------------
\* chip8/src/keyboard.rs
\* ------------------------------------------------------------------------
Keyboard_new == [keys |-> [k \in 0..15 |-> FALSE]]

is_key_pressed(kb, key) == IF key < 16 THEN kb.keys[key] ELSE FALSE

set_key(kb, key, pressed) ==
  IF key < 16 THEN [kb EXCEPT !.keys[key] = pressed] ELSE kb

\* position of the first pressed key, or None
get_pressed_key(kb) ==
  IF \E k \in 0..15 : kb.keys[k]
    THEN CHOOSE k \in 0..15 : kb.keys[k] /\ \A j \in 0..(k - 1) : ~kb.keys[j]
    ELSE None

\* the match of update_from_minifb: host key -> CHIP-8 key, None for `_`
MapKey(key) ==
  CASE key = "Key1" -> 1  [] key = "Key2" -> 2  [] key = "Key3" -> 3
    [] key = "Key4" -> 12
    [] key = "Q" -> 4     [] key = "W" -> 5     [] key = "E" -> 6
    [] key = "R" -> 13
    [] key = "A" -> 7     [] key = "S" -> 8     [] key = "D" -> 9
    [] key = "F" -> 14
    [] key = "Z" -> 10    [] key = "X" -> 0     [] key = "C" -> 11
    [] key = "V" -> 15
    [] OTHER -> None

\* update_from_minifb as it would be without the reset of all keys
update_from_minifb_without_reset(kb, minifb_keys) ==
  [kb EXCEPT !.keys =
     [k \in 0..15 |-> @[k] \/ \E key \in minifb_keys : MapKey(key) = k]]

\* all keys are reset, then every mapped host key of the snapshot is set
update_from_minifb(kb, minifb_keys) ==
  [kb EXCEPT !.keys =
     [k \in 0..15 |-> \E key \in minifb_keys : MapKey(key) = k]]

\* ------------------------------------------------------------------------
\* chip8/src/display.rs
\* pixels is the set of the coordinates <<x, y>> whose cell of the
\* [[bool; 64]; 32] grid is true
\* ------------------------------------------------------------------------
Display_new == [pixels |-> {}, needs_redraw |-> TRUE]

clear(d) == [d EXCEPT !.pixels = {}, !.needs_redraw = TRUE]

\* bit `bit` (0 = leftmost) of a sprite byte: (byte >> (7 - bit)) & 1
SpriteBit(byte, bit) == (byte \div (2 ^ (7 - bit))) % 2

\* draw_loop as it would be if a sprite bit switched its pixel on instead
\* of toggling it
RECURSIVE draw_loop_setting_pixels(_, _, _, _, _)
draw_loop_setting_pixels(acc, x, y, sprite, k) ==
  IF k >= 8 * Len(sprite) THEN acc
  ELSE LET p == <<(x + (k % 8)) % SCREEN_WIDTH, (y + (k \div 8)) % SCREEN_HEIGHT>>
       IN Bind(IF SpriteBit(sprite[(k \div 8) + 1], k % 8) = 1
                 THEN [pixels |-> acc.pixels \cup {p},
                       collision |-> acc.collision \/ p \in acc.pixels]
                 ELSE acc,
               LAMBDA next : draw_loop_setting_pixels(next, x, y, sprite, k + 1))

\* draw_loop as it would be if every set sprite bit counted as a collision
RECURSIVE draw_loop_flagging_set_bits(_, _, _, _, _)
draw_loop_flagging_set_bits(acc, x, y, sprite, k) ==
  IF k >= 8 * Len(sprite) THEN acc
  ELSE LET p == <<(x + (k % 8)) % SCREEN_WIDTH, (y + (k \div 8)) % SCREEN_HEIGHT>>
       IN Bind(IF SpriteBit(sprite[(k \div 8) + 1], k % 8) = 1
                 THEN [pixels |-> IF p \in acc.pixels
                                    THEN acc.pixels \ {p}
                                    ELSE acc.pixels \cup {p},
                       collision |-> TRUE]
                 ELSE acc,
               LAMBDA next :
                 draw_loop_flagging_set_bits(next, x, y, sprite, k + 1))

\* the loops of draw_sprite, unrolled: step k handles row k \div 8 and
\* bit k % 8; acc is [pixels, collision]
RECURSIVE draw_loop(_, _, _, _, _)
draw_loop(acc, x, y, sprite, k) ==
  IF k >= 8 * Len(sprite) THEN acc
  ELSE LET row   == k \div 8
           bit   == k % 8
           y_pos == (y + row) % SCREEN_HEIGHT
           x_pos == (x + bit) % SCREEN_WIDTH
           p     == <<x_pos, y_pos>>
       IN Bind(IF SpriteBit(sprite[row + 1], bit) = 1
                 THEN [pixels |-> IF p \in acc.pixels
                                    THEN acc.pixels \ {p}
                                    ELSE acc.pixels \cup {p},
                       collision |-> acc.collision \/ p \in acc.pixels]
                 ELSE acc,
               LAMBDA next : draw_loop(next, x, y, sprite, k + 1))

\* returns the display after the draw and the collision flag
draw_sprite(d, x, y, sprite) ==
  LET r == draw_loop([pixels |-> d.pixels, collision |-> FALSE],
                     x % SCREEN_WIDTH, y % SCREEN_HEIGHT, sprite, 0)
  IN [display |-> [pixels |-> r.pixels, needs_redraw |-> TRUE],
      collision |-> r.collision]

\* ------------------------------------------------------------------------
\* chip8/src/cpu.rs
\* ------------------------------------------------------------------------
load_fonts(mem) ==
  [a \in 0..(MEMORY_SIZE - 1) |->
     IF a >= FONT_START /\ a < FONT_START + Len(FONT_SET)
       THEN FONT_SET[a - FONT_START + 1] ELSE mem[a]]

CPU_new ==
  [registers       |-> [i \in 0..15 |-> 0],
   index_register  |-> 0,
   program_counter |-> PROGRAM_START,
   stack           |-> [i \in 0..15 |-> 0],
   stack_pointer   |-> 0,
   memory          |-> load_fonts([a \in 0..(MEMORY_SIZE - 1) |-> 0]),
   delay_timer     |-> 0,
   sound_timer     |-> 0,
   display         |-> Display_new,
   keyboard        |-> Keyboard_new,
   waiting_for_key |-> None,
   running         |-> TRUE]

\* load_rom as it would be if it refused a ROM that fills the region
load_rom_refusing_full(c, rom_data) ==
  IF Len(rom_data) >= MEMORY_SIZE - PROGRAM_START
    THEN [ok |-> FALSE, cpu |-> c]
    ELSE [ok |-> TRUE,
          cpu |-> [c EXCEPT !.memory =
                     [a \in 0..(MEMORY_SIZE - 1) |->
                        IF a >= PROGRAM_START /\ a < PROGRAM_START + Len(rom_data)
                          THEN rom_data[a - PROGRAM_START + 1]
                          ELSE c.memory[a]]]]

\* Ok(()) with the ROM copied to 0x200, or Err with the CPU untouched
load_rom(c, rom_data) ==
  IF Len(rom_data) > MEMORY_SIZE - PROGRAM_START
    THEN [ok |-> FALSE, cpu |-> c]
    ELSE [ok |-> TRUE,
          cpu |-> [c EXCEPT !.memory =
                     [a \in 0..(MEMORY_SIZE - 1) |->
                        IF a >= PROGRAM_START /\ a < PROGRAM_START + Len(rom_data)
                          THEN rom_data[a - PROGRAM_START + 1]
                          ELSE c.memory[a]]]]

\* fetch indexes memory[PC] and memory[PC + 1]: out of range aborts
fetch_panics(c) == c.program_counter + 1 >= MEMORY_SIZE

fetch(c) ==
  [opcode |-> c.memory[c.program_counter] * 256
                + c.memory[c.program_counter + 1],
   cpu    |-> [c EXCEPT !.program_counter = @ + 2]]

\* update_timers as it would be with a u8 decrement that wraps at 0
update_timers_wrapping(c) ==
  [c EXCEPT !.delay_timer = (@ + 255) % 256,
            !.sound_timer = (@ + 255) % 256]

update_timers(c) ==
  [c EXCEPT !.delay_timer = IF @ > 0 THEN @ - 1 ELSE @,
            !.sound_timer = IF @ > 0 THEN @ - 1 ELSE @]

\* whether update_timers prints BEEP!: the sound timer was positive and
\* is 0 after its decrement
update_timers_beeps(c) == c.sound_timer > 0 /\ c.sound_timer - 1 = 0

op_00e0(c) == [c EXCEPT !.display = clear(@)]

\* op_00ee as it would be if the pop forgot to move the stack pointer
op_00ee_keeping_sp(c) ==
  IF c.stack_pointer = 0 THEN c
  ELSE [c EXCEPT !.program_counter = c.stack[c.stack_pointer - 1]]

\* op_00ee as it would be if a stack underflow stopped the machine
op_00ee_halting_on_underflow(c) ==
  IF c.stack_pointer = 0 THEN [c EXCEPT !.running = FALSE]
  ELSE [c EXCEPT !.stack_pointer = @ - 1,
                 !.program_counter = c.stack[c.stack_pointer - 1]]

op_00ee(c) ==
  IF c.stack_pointer = 0 THEN c
  ELSE [c EXCEPT !.stack_pointer = @ - 1,
                 !.program_counter = c.stack[c.stack_pointer - 1]]

op_1nnn(c, nnn) == [c EXCEPT !.program_counter = nnn]

\* op_2nnn as it would be without the overflow check
op_2nnn_unchecked(c, nnn) ==
  [c EXCEPT !.stack = [i \in DOMAIN @ \cup {c.stack_pointer} |->
                         IF i = c.stack_pointer THEN c.program_counter
                                                ELSE @[i]],
            !.stack_pointer = @ + 1,
            !.program_counter = nnn]

\* op_2nnn as it would be if a full stack only suppressed the push
op_2nnn_jumping_on_overflow(c, nnn) ==
  IF c.stack_pointer >= 16 THEN [c EXCEPT !.program_counter = nnn]
  ELSE [c EXCEPT !.stack[c.stack_pointer] = c.program_counter,
                 !.stack_pointer = @ + 1,
                 !.program_counter = nnn]

\* op_2nnn as it would be if it pushed the address of the call itself
op_2nnn_pushing_call_address(c, nnn) ==
  IF c.stack_pointer >= 16 THEN c
  ELSE [c EXCEPT !.stack[c.stack_pointer] = c.program_counter - 2,
                 !.stack_pointer = @ + 1,
                 !.program_counter = nnn]

op_2nnn(c, nnn) ==
  IF c.stack_pointer >= 16 THEN c
  ELSE [c EXCEPT !.stack[c.stack_pointer] = c.program_counter,
                 !.stack_pointer = @ + 1,
                 !.program_counter = nnn]

op_bnnn(c, nnn) == [c EXCEPT !.program_counter = c.registers[0] + nnn]

op_6xkk(c, x, kk) == [c EXCEPT !.registers[x] = kk]

op_7xkk(c, x, kk) == [c EXCEPT !.registers[x] = (@ + kk) % 256]

op_annn(c, nnn) == [c EXCEPT !.index_register = nnn]

\* the slice memory[I .. I + n] must lie inside the memory
op_dxyn_panics(c, n) == c.index_register + n > MEMORY_SIZE

\* op_dxyn as it would be if VF were only ever raised, never cleared
op_dxyn_sticky_vf(c, x, y, n) ==
  LET sprite == [r \in 1..n |-> c.memory[c.index_register + r - 1]]
      res    == draw_sprite(c.display, c.registers[x], c.registers[y], sprite)
  IN [c EXCEPT !.display = res.display,
               !.registers[15] = IF res.collision THEN 1 ELSE @]

op_dxyn(c, x, y, n) ==
  LET sprite == [r \in 1..n |-> c.memory[c.index_register + r - 1]]
      res    == draw_sprite(c.display, c.registers[x], c.registers[y], sprite)
  IN [c EXCEPT !.display = res.display,
               !.registers[15] = IF res.collision THEN 1 ELSE 0]

op_3xkk(c, x, kk) ==
  IF c.registers[x] = kk THEN [c EXCEPT !.program_counter = @ + 2] ELSE c

op_4xkk(c, x, kk) ==
  IF c.registers[x] # kk THEN [c EXCEPT !.program_counter = @ + 2] ELSE c

op_5xy0(c, x, y) ==
  IF c.registers[x] = c.registers[y]
    THEN [c EXCEPT !.program_counter = @ + 2] ELSE c

\* op_9xy0 as it would be if it skipped on equal registers
op_9xy0_skipping_on_equal(c, x, y) ==
  IF c.registers[x] = c.registers[y]
    THEN [c EXCEPT !.program_counter = @ + 2] ELSE c

op_9xy0(c, x, y) ==
  IF c.registers[x] # c.registers[y]
    THEN [c EXCEPT !.program_counter = @ + 2] ELSE c

op_ex9e(c, x) ==
  IF is_key_pressed(c.keyboard, c.registers[x] % 16)
    THEN [c EXCEPT !.program_counter = @ + 2] ELSE c

op_exa1(c, x) ==
  IF ~is_key_pressed(c.keyboard, c.registers[x] % 16)
    THEN [c EXCEPT !.program_counter = @ + 2] ELSE c

op_fx07(c, x) == [c EXCEPT !.registers[x] = c.delay_timer]

op_fx15(c, x) == [c EXCEPT !.delay_timer = c.registers[x]]

op_fx18(c, x) == [c EXCEPT !.sound_timer = c.registers[x]]

\* op_fx29 as it would be without the mask of the low nibble
op_fx29_unmasked(c, x) ==
  [c EXCEPT !.index_register = FONT_START + c.registers[x] * 5]

op_fx29(c, x) ==
  [c EXCEPT !.index_register = FONT_START + (c.registers[x] % 16) * 5]

op_fx33_panics(c) == c.index_register + 2 >= MEMORY_SIZE

\* op_fx33 as it would be if the tens were not reduced modulo 100
op_fx33_unreduced_tens(c, x) ==
  LET value == c.registers[x]
      i     == c.index_register
  IN [c EXCEPT !.memory = [@ EXCEPT ![i]     = value \div 100,
                                    ![i + 1] = value \div 10,
                                    ![i + 2] = value % 10]]

op_fx33(c, x) ==
  LET value == c.registers[x]
      i     == c.index_register
  IN [c EXCEPT !.memory = [@ EXCEPT ![i]     = value \div 100,
                                    ![i + 1] = (value % 100) \div 10,
                                    ![i + 2] = value % 10]]

\* Fx55 and Fx65 index memory[I + i] for i in 0..=x
op_fx55_panics(c, x) == c.index_register + x >= MEMORY_SIZE

op_fx55(c, x) ==
  [c EXCEPT !.memory =
     [a \in 0..(MEMORY_SIZE - 1) |->
        IF a >= c.index_register /\ a <= c.index_register + x
          THEN c.registers[a - c.index_register] ELSE @[a]]]

op_fx65_panics(c, x) == c.index_register + x >= MEMORY_SIZE

\* op_fx65 as it would be with the exclusive range 0..x
op_fx65_exclusive(c, x) ==
  [c EXCEPT !.registers =
     [i \in 0..15 |-> IF i < x THEN c.memory[c.index_register + i] ELSE @[i]]]

op_fx65(c, x) ==
  [c EXCEPT !.registers =
     [i \in 0..15 |-> IF i <= x THEN c.memory[c.index_register + i] ELSE @[i]]]

op_fx0a(c, x) == [c EXCEPT !.waiting_for_key = x]

op_00fd(c) == [c EXCEPT !.running = FALSE]

\* the fields execute decodes from an opcode
Nibbles(opcode) ==
  << opcode \div 4096, (opcode \div 256) % 16, (opcode \div 16) % 16,
     opcode % 16 >>

\* the arm of execute's match that an opcode selects, "unknown" for `_`
Decode(opcode) ==
  LET nb == Nibbles(opcode)
  IN CASE nb = <<0, 0, 14, 0>>  -> "00e0"
       [] nb = <<0, 0, 14, 14>> -> "00ee"
       [] nb[1] = 1  -> "1nnn"
       [] nb[1] = 2  -> "2nnn"
       [] nb[1] = 11 -> "bnnn"
       [] nb[1] = 6  -> "6xkk"
       [] nb[1] = 7  -> "7xkk"
       [] nb[1] = 10 -> "annn"
       [] nb[1] = 13 -> "dxyn"
       [] nb[1] = 3  -> "3xkk"
       [] nb[1] = 4  -> "4xkk"
       [] nb[1] = 5 /\ nb[4] = 0 -> "5xy0"
       [] nb[1] = 9 /\ nb[4] = 0 -> "9xy0"
       [] nb[1] = 14 /\ nb[3] = 9 /\ nb[4] = 14 -> "ex9e"
       [] nb[1] = 14 /\ nb[3] = 10 /\ nb[4] = 1 -> "exa1"
       [] nb[1] = 15 /\ nb[3] = 0 /\ nb[4] = 7  -> "fx07"
       [] nb[1] = 15 /\ nb[3] = 1 /\ nb[4] = 5  -> "fx15"
       [] nb[1] = 15 /\ nb[3] = 1 /\ nb[4] = 8  -> "fx18"
       [] nb[1] = 15 /\ nb[3] = 2 /\ nb[4] = 9  -> "fx29"
       [] nb[1] = 15 /\ nb[3] = 3 /\ nb[4] = 3  -> "fx33"
       [] nb[1] = 15 /\ nb[3] = 5 /\ nb[4] = 5  -> "fx55"
       [] nb[1] = 15 /\ nb[3] = 6 /\ nb[4] = 5  -> "fx65"
       [] nb[1] = 15 /\ nb[3] = 0 /\ nb[4] = 10 -> "fx0a"
       [] nb = <<0, 0, 15, 13>> -> "00fd"
       [] OTHER -> "unknown"

execute_panics(c, opcode) ==
  LET arm == Decode(opcode)
      x   == Nibbles(opcode)[2]
      n   == Nibbles(opcode)[4]
  IN \/ arm = "dxyn" /\ op_dxyn_panics(c, n)
     \/ arm = "fx33" /\ op_fx33_panics(c)
     \/ arm = "fx55" /\ op_fx55_panics(c, x)
     \/ arm = "fx65" /\ op_fx65_panics(c, x)

execute(c, opcode) ==
  LET arm == Decode(opcode)
      nnn == opcode % 4096
      kk  == opcode % 256
      x   == Nibbles(opcode)[2]
      y   == Nibbles(opcode)[3]
      n   == Nibbles(opcode)[4]
  IN CASE arm = "00e0" -> op_00e0(c)
       [] arm = "00ee" -> op_00ee(c)
       [] arm = "1nnn" -> op_1nnn(c, nnn)
       [] arm = "2nnn" -> op_2nnn(c, nnn)
       [] arm = "bnnn" -> op_bnnn(c, nnn)
       [] arm = "6xkk" -> op_6xkk(c, x, kk)
       [] arm = "7xkk" -> op_7xkk(c, x, kk)
       [] arm = "annn" -> op_annn(c, nnn)
       [] arm = "dxyn" -> op_dxyn(c, x, y, n)
       [] arm = "3xkk" -> op_3xkk(c, x, kk)
       [] arm = "4xkk" -> op_4xkk(c, x, kk)
       [] arm = "5xy0" -> op_5xy0(c, x, y)
       [] arm = "9xy0" -> op_9xy0(c, x, y)
       [] arm = "ex9e" -> op_ex9e(c, x)
       [] arm = "exa1" -> op_exa1(c, x)
       [] arm = "fx07" -> op_fx07(c, x)
       [] arm = "fx15" -> op_fx15(c, x)
       [] arm = "fx18" -> op_fx18(c, x)
       [] arm = "fx29" -> op_fx29(c, x)
       [] arm = "fx33" -> op_fx33(c, x)
       [] arm = "fx55" -> op_fx55(c, x)
       [] arm = "fx65" -> op_fx65(c, x)
       [] arm = "fx0a" -> op_fx0a(c, x)
       [] arm = "00fd" -> op_00fd(c)
       [] OTHER -> c

\* cycle() returns early, before the fetch, when halted or waiting
cycle_fetches(c) == c.running /\ c.waiting_for_key = None

cycle_panics(c) ==
  /\ cycle_fetches(c)
  /\ \/ fetch_panics(c)
     \/ execute_panics(fetch(c).cpu, fetch(c).opcode)

\* cycle as it would be without the waiting_for_key check
cycle_ignoring_wait(c) ==
  IF ~c.running THEN c
  ELSE update_timers(execute(fetch(c).cpu, fetch(c).opcode))

\* cycle as it would be with the timer update ahead of the early returns
cycle_ticking_first(c) ==
  update_timers(IF ~c.running THEN c
                ELSE IF c.waiting_for_key # None THEN c
                ELSE execute(fetch(c).cpu, fetch(c).opcode))

\* cycle as it would be if an opcode that no arm decodes stopped the machine
cycle_halting_on_unknown(c) ==
  IF ~c.running THEN c
  ELSE IF c.waiting_for_key # None THEN c
  ELSE LET done == update_timers(execute(fetch(c).cpu, fetch(c).opcode))
       IN IF Decode(fetch(c).opcode) = "unknown"
            THEN [done EXCEPT !.running = FALSE] ELSE done

cycle(c) ==
  IF ~c.running THEN c
  ELSE IF c.waiting_for_key # None THEN c
  ELSE update_timers(execute(fetch(c).cpu, fetch(c).opcode))

\* ------------------------------------------------------------------------
\* micro-py/src/ir/ast.rs, as micro-py/src/backends/chip8.rs uses it
\* A name is the sequence of its characters; every node is a record with
\* a kind field.
\* ------------------------------------------------------------------------
Number(n) == [kind |-> "Number", n |-> n]
Variable(name) == [kind |-> "Variable", name |-> name]
BinaryOp(left, op, right) ==
  [kind |-> "BinaryOp", left |-> left, op |-> op, right |-> right]

CondTrue == [kind |-> "True"]
Equal(l, r) == [kind |-> "Equal", left |-> l, right |-> r]
NotEqual(l, r) == [kind |-> "NotEqual", left |-> l, right |-> r]
Greater(l, r) == [kind |-> "Greater", left |-> l, right |-> r]
Less(l, r) == [kind |-> "Less", left |-> l, right |-> r]
KeyPressed(e) == [kind |-> "KeyPressed", left |-> e]

Pass == [kind |-> "Pass"]
Assign(target, value) == [kind |-> "Assign", target |-> target, value |-> value]
PrintChar(x, y, ch) == [kind |-> "Print", x |-> x, y |-> y, character |-> ch]
ClearScreen == [kind |-> "ClearScreen"]
Label(name) == [kind |-> "Label", name |-> name]
Jump(label) == [kind |-> "Jump", label |-> label]
While(cond, body) == [kind |-> "While", condition |-> cond, body |-> body]
For(var, start, end, body) ==
  [kind |-> "For", variable |-> var, start |-> start, end |-> end,
   body |-> body]

\* ------------------------------------------------------------------------
\* micro-py/src/backends/chip8.rs
\* The backend is the record [code, labels, current_address, patches];
\* its field result is the Result of the compile_* call in progress: "Ok"
\* or the CompileError variant that `?` propagates.
\* ------------------------------------------------------------------------
\* bitwise or of two unsigned numbers
RECURSIVE BitOr(_, _)
BitOr(a, b) ==
  IF a = 0 THEN b
  ELSE IF b = 0 THEN a
  ELSE (IF a % 2 = 1 \/ b % 2 = 1 THEN 1 ELSE 0)
         + 2 * BitOr(a \div 2, b \div 2)

Chip8Backend_new ==
  [code            |-> << >>,
   labels          |-> << >>,
   current_address |-> PROGRAM_START,
   patches         |-> << >>,
   result          |-> "Ok"]

Fail(st, kind) == [st EXCEPT !.result = kind]

\* one hexadecimal digit as u8::from_str_radix(_, 16) reads it, -1 for Err
HexDigit(ch) ==
  CASE ch = "0" -> 0 [] ch = "1" -> 1 [] ch = "2" -> 2 [] ch = "3" -> 3
    [] ch = "4" -> 4 [] ch = "5" -> 5 [] ch = "6" -> 6 [] ch = "7" -> 7
    [] ch = "8" -> 8 [] ch = "9" -> 9
    [] ch \in {"a", "A"} -> 10 [] ch \in {"b", "B"} -> 11
    [] ch \in {"c", "C"} -> 12 [] ch \in {"d", "D"} -> 13
    [] ch \in {"e", "E"} -> 14 [] ch \in {"f", "F"} -> 15
    [] OTHER -> -1

\* the register index, or -1 for Err(UnknownRegister)
parse_register(name) ==
  IF Len(name) = 2 /\ name[1] = "v" /\ HexDigit(name[2]) >= 0
       /\ HexDigit(name[2]) < 16
    THEN HexDigit(name[2]) ELSE -1

\* emit_instruction as it would be with the low byte first
emit_instruction_low_byte_first(st, instruction) ==
  [st EXCEPT !.code = Append(Append(@, instruction % 256),
                             (instruction \div 256) % 256),
             !.current_address = @ + 2]

emit_instruction(st, instruction) ==
  [st EXCEPT !.code = Append(Append(@, (instruction \div 256) % 256),
                             instruction % 256),
             !.current_address = @ + 2]

\* the placeholder's address is the current_address before the call
emit_jump_placeholder(st) == emit_instruction(st, Op(1, 0, 0, 0))

\* patch_jump as it would be if the placeholder were never rewritten
patch_jump_keeping_placeholder(st, placeholder_address, target_address) == st

patch_jump(st, placeholder_address, target_address) ==
  LET code_index  == placeholder_address - PROGRAM_START
      instruction == BitOr(Op(1, 0, 0, 0), target_address)
  IN IF code_index >= Len(st.code) THEN st
     ELSE [st EXCEPT !.code = [@ EXCEPT
             ![code_index + 1] = (instruction \div 256) % 256,
             ![code_index + 2] = instruction % 256]]

compile_clear_screen(st) == emit_instruction(st, Op(0, 0, 14, 0))

\* the font address compile_draw_char picks for a character, -1 for `_`
FontAddress(ch) ==
  CASE ch = "0" -> 80  [] ch = "1" -> 85  [] ch = "2" -> 90
    [] ch = "3" -> 95  [] ch = "4" -> 100 [] ch = "5" -> 105
    [] ch = "6" -> 110 [] ch = "7" -> 115 [] ch = "8" -> 120
    [] ch = "9" -> 125
    [] ch \in {"A", "a"} -> 130 [] ch \in {"B", "b"} -> 135
    [] ch \in {"C", "c"} -> 140 [] ch \in {"D", "d"} -> 145
    [] ch \in {"E", "e"} -> 150 [] ch \in {"F", "f"} -> 155
    [] OTHER -> -1

compile_draw_char(st, x, y, character) ==
  IF FontAddress(character) < 0 THEN Fail(st, "SyntaxError")
  ELSE
    Bind(emit_instruction(st, BitOr(Op(10, 0, 0, 0), FontAddress(character))),
         LAMBDA st1 :
      IF x.kind # "Variable" THEN Fail(st1, "SyntaxError")
      ELSE IF parse_register(x.name) < 0 THEN Fail(st1, "UnknownRegister")
      ELSE IF y.kind # "Variable" THEN Fail(st1, "SyntaxError")
      ELSE IF parse_register(y.name) < 0 THEN Fail(st1, "UnknownRegister")
      ELSE emit_instruction(st1,
             BitOr(BitOr(BitOr(Op(13, 0, 0, 0),
                               parse_register(x.name) * 256),
                         parse_register(y.name) * 16), 5)))

compile_binary_op(st, target, left, op, right) ==
  LET reg_target == parse_register(target)
  IN IF reg_target < 0 THEN Fail(st, "UnknownRegister")
     ELSE IF op # "Add" THEN Fail(st, "SyntaxError")
     ELSE IF left.kind = "Variable" /\ right.kind = "Number" THEN
       LET reg_left == parse_register(left.name)
       IN IF reg_left < 0 THEN Fail(st, "UnknownRegister")
          ELSE emit_instruction(
                 emit_instruction(st,
                   BitOr(BitOr(Op(8, 0, 0, 0), reg_target * 256),
                         reg_left * 16)),
                 BitOr(BitOr(Op(7, 0, 0, 0), reg_target * 256), right.n))
     ELSE IF left.kind = "Number" /\ right.kind = "Variable" THEN
       LET reg_right == parse_register(right.name)
       IN Bind(emit_instruction(st,
                 BitOr(BitOr(Op(6, 0, 0, 0), reg_target * 256), left.n)),
               LAMBDA st1 :
            IF reg_right < 0 THEN Fail(st1, "UnknownRegister")
            ELSE emit_instruction(st1,
                   BitOr(BitOr(Op(8, 0, 0, 4), reg_target * 256),
                         reg_right * 16)))
     ELSE IF left.kind = "Variable" /\ right.kind = "Variable" THEN
       LET reg_left  == parse_register(left.name)
           reg_right == parse_register(right.name)
       IN IF reg_left < 0 \/ reg_right < 0 THEN Fail(st, "UnknownRegister")
          ELSE emit_instruction(
                 emit_instruction(st,
                   BitOr(BitOr(Op(8, 0, 0, 0), reg_target * 256),
                         reg_left * 16)),
                 BitOr(BitOr(Op(8, 0, 0, 4), reg_target * 256),
                       reg_right * 16))
     ELSE Fail(st, "SyntaxError")

compile_assign(st, target, value) ==
  IF value.kind = "Number" THEN
    LET reg == parse_register(target)
    IN IF reg < 0 THEN Fail(st, "UnknownRegister")
       ELSE emit_instruction(st,
              BitOr(BitOr(Op(6, 0, 0, 0), reg * 256), value.n))
  ELSE IF value.kind = "Variable" THEN
    LET reg_dest == parse_register(target)
        reg_src  == parse_register(value.name)
    IN IF reg_dest < 0 \/ reg_src < 0 THEN Fail(st, "UnknownRegister")
       ELSE emit_instruction(st,
              BitOr(BitOr(Op(8, 0, 0, 0), reg_dest * 256), reg_src * 16))
  ELSE compile_binary_op(st, target, value.left, value.op, value.right)

\* emit_jump_placeholder followed by self.patches.push((jump_addr, 0))
emit_registered_placeholder(st) ==
  [emit_jump_placeholder(st) EXCEPT
     !.patches = Append(@, <<st.current_address, 0>>)]

\* the skip opcode, then a placeholder jump that is pushed on patches
compile_equality_check(st, left, right, jump_when_equal) ==
  IF left.kind = "Variable" /\ right.kind = "Number" THEN
    LET reg == parse_register(left.name)
    IN IF reg < 0 THEN Fail(st, "UnknownRegister")
       ELSE Bind(emit_instruction(st,
                   BitOr(BitOr(IF jump_when_equal THEN Op(3, 0, 0, 0)
                                                  ELSE Op(4, 0, 0, 0),
                               reg * 256),
                         right.n)),
                 LAMBDA st1 : emit_registered_placeholder(st1))
  ELSE IF left.kind = "Variable" /\ right.kind = "Variable" THEN
    LET reg_left  == parse_register(left.name)
        reg_right == parse_register(right.name)
    IN IF reg_left < 0 \/ reg_right < 0 THEN Fail(st, "UnknownRegister")
       ELSE Bind(emit_instruction(st,
                   BitOr(BitOr(IF jump_when_equal THEN Op(5, 0, 0, 0)
                                                  ELSE Op(9, 0, 0, 0),
                               reg_left * 256),
                         reg_right * 16)),
                 LAMBDA st1 : emit_registered_placeholder(st1))
  ELSE Fail(st, "BackendError")

compile_greater_check(st, left, right, jump_when_greater) ==
  IF left.kind = "Variable" /\ right.kind = "Number" THEN
    LET reg_left == parse_register(left.name)
        temp_reg == 14
    IN IF reg_left < 0 THEN Fail(st, "UnknownRegister")
       ELSE Bind(emit_instruction(
                   emit_instruction(
                     emit_instruction(st,
                       BitOr(BitOr(Op(6, 0, 0, 0), temp_reg * 256), right.n)),
                     BitOr(BitOr(Op(8, 0, 0, 5), reg_left * 256),
                           temp_reg * 16)),
                   IF jump_when_greater THEN Op(3, 15, 0, 1)
                                        ELSE Op(3, 15, 0, 0)),
                 LAMBDA st3 : emit_registered_placeholder(st3))
  ELSE Fail(st, "BackendError")

\* compile_condition as it would be if NotEqual passed jump_on_false on
\* without negating it
compile_condition_same_polarity(st, condition, jump_on_false) ==
  CASE condition.kind = "True" -> st
    [] condition.kind \in {"Equal", "NotEqual"} ->
         compile_equality_check(st, condition.left, condition.right,
                                jump_on_false)
    [] condition.kind = "Greater" ->
         compile_greater_check(st, condition.left, condition.right,
                               jump_on_false)
    [] condition.kind = "Less" -> st
    [] condition.kind = "KeyPressed" -> st

compile_condition(st, condition, jump_on_false) ==
  CASE condition.kind = "True" -> st
    [] condition.kind = "Equal" ->
         compile_equality_check(st, condition.left, condition.right,
                                jump_on_false)
    [] condition.kind = "NotEqual" ->
         compile_equality_check(st, condition.left, condition.right,
                                ~jump_on_false)
    [] condition.kind = "Greater" ->
         compile_greater_check(st, condition.left, condition.right,
                               jump_on_false)
    [] condition.kind = "Less" -> st
    [] condition.kind = "KeyPressed" -> st

RECURSIVE compile_statement(_, _)
RECURSIVE compile_body(_, _, _)
RECURSIVE compile_while(_, _, _)
RECURSIVE compile_for(_, _, _, _, _)

\* `for stmt in body { self.compile_statement(stmt)?; }` from statement k
compile_body(st, body, k) ==
  IF k > Len(body) THEN st
  ELSE Bind(compile_statement(st, body[k]), LAMBDA st1 :
         IF st1.result # "Ok" THEN st1 ELSE compile_body(st1, body, k + 1))

compile_while(st, condition, body) ==
  IF condition.kind = "True" THEN
    LET loop_start == st.current_address
    IN Bind(compile_body(st, body, 1), LAMBDA st1 :
         IF st1.result # "Ok" THEN st1
         ELSE emit_instruction(st1, BitOr(Op(1, 0, 0, 0), loop_start)))
  ELSE
    LET condition_check_addr == st.current_address
    IN Bind(compile_condition(st, condition, TRUE), LAMBDA st1 :
         IF st1.result # "Ok" THEN st1
         ELSE
           LET exit_jump_placeholder == st1.current_address
           IN Bind(compile_body(emit_jump_placeholder(st1), body, 1),
                   LAMBDA st3 :
                IF st3.result # "Ok" THEN st3
                ELSE Bind(emit_instruction(st3,
                            BitOr(Op(1, 0, 0, 0), condition_check_addr)),
                          LAMBDA st4 :
                       patch_jump(st4, exit_jump_placeholder,
                                  st4.current_address))))

compile_for(st, variable, start, end, body) ==
  LET reg_counter == parse_register(variable)
      temp_reg    == 14
  IN IF reg_counter < 0 THEN Fail(st, "UnknownRegister")
     ELSE Bind(compile_assign(st, variable, start), LAMBDA st1 :
       IF st1.result # "Ok" THEN st1
       ELSE
         LET loop_start == st1.current_address
         IN Bind(IF end.kind = "Number" THEN
                   emit_instruction(st1,
                     BitOr(BitOr(Op(6, 0, 0, 0), temp_reg * 256), end.n))
                 ELSE IF end.kind = "Variable" THEN
                   IF parse_register(end.name) < 0
                     THEN Fail(st1, "UnknownRegister")
                     ELSE emit_instruction(st1,
                            BitOr(BitOr(Op(8, 0, 0, 0), temp_reg * 256),
                                  parse_register(end.name) * 16))
                 ELSE Fail(st1, "BackendError"),
                 LAMBDA st2 :
              IF st2.result # "Ok" THEN st2
              ELSE Bind(emit_instruction(
                          emit_instruction(st2,
                            BitOr(BitOr(Op(8, 0, 0, 5), reg_counter * 256),
                                  temp_reg * 16)),
                          Op(3, 15, 0, 1)),
                        LAMBDA st4 :
                     LET exit_jump_placeholder == st4.current_address
                     IN Bind(compile_body(emit_jump_placeholder(st4), body, 1),
                             LAMBDA st6 :
                          IF st6.result # "Ok" THEN st6
                          ELSE Bind(emit_instruction(
                                      emit_instruction(st6,
                                        BitOr(Op(7, 0, 0, 1),
                                              reg_counter * 256)),
                                      BitOr(Op(1, 0, 0, 0), loop_start)),
                                    LAMBDA st8 :
                                 patch_jump(st8, exit_jump_placeholder,
                                            st8.current_address))))))

compile_statement(st, statement) ==
  CASE statement.kind = "Assign" ->
         compile_assign(st, statement.target, statement.value)
    [] statement.kind = "Print" ->
         compile_draw_char(st, statement.x, statement.y, statement.character)
    [] statement.kind = "ClearScreen" -> compile_clear_screen(st)
    [] statement.kind = "Label" ->
         [st EXCEPT !.labels =
            [nm \in DOMAIN @ \cup {statement.name} |->
               IF nm = statement.name THEN st.current_address ELSE @[nm]]]
    [] statement.kind = "While" ->
         compile_while(st, statement.condition, statement.body)
    [] statement.kind = "For" ->
         compile_for(st, statement.variable, statement.start, statement.end,
                     statement.body)
    [] statement.kind = "Pass" -> st
    [] OTHER -> Fail(st, "SyntaxError")

\* the patches loop as it would be if it ended after the first entry
patch_all_first_only(st, i, target_addr) ==
  IF i > Len(st.patches) \/ i > 1 THEN st
  ELSE patch_jump(st, st.patches[i][1], target_addr)

\* the patches loop of compile_program from entry i
RECURSIVE patch_all(_, _, _)
patch_all(st, i, target_addr) ==
  IF i > Len(st.patches) THEN st
  ELSE Bind(patch_jump(st, st.patches[i][1], target_addr), LAMBDA st1 :
         patch_all(st1, i + 1, target_addr))

\* result "Ok" stands for Ok(self.code.clone())
compile_program(st, program) ==
  Bind(compile_body(st, program, 1), LAMBDA st1 :
    IF st1.result # "Ok" THEN st1
    ELSE Bind(emit_instruction(st1, Op(0, 0, 15, 13)), LAMBDA st2 :
           patch_all(st2, 1, st2.current_address)))

compile(st, program) == compile_program(st, program)

\* ------------------------------------------------------------------------
\* The ROM files the emulator is started on
\* ------------------------------------------------------------------------
v0 == <<"v", "0">>
v1 == <<"v", "1">>

\* v0 = 0; while v0 != 5: v0 = v0 + 1
WhileProgram ==
  << Assign(v0, Number(0)),
     While(NotEqual(Variable(v0), Number(5)),
           << Assign(v0, BinaryOp(Variable(v0), "Add", Number(1))) >>) >>

\* for v1 in range(0, 3): clear()
ForProgram == << For(v1, Number(0), Number(3), << ClearScreen >>) >>

\* the ROM bytes a fresh backend produces for a program
CompiledRom(program) == compile(Chip8Backend_new, program).code

\* 0x200: CALL 0x206; HALT   0x206: V0 = 0x2A; RET
CallRetRom ==
  WordsToBytes(<< Op(2, 2, 0, 6), Op(0, 0, 15, 13), Op(0, 0, 0, 0),
                  Op(6, 0, 2, 10), Op(0, 0, 14, 14) >>)

\* 0x200 calls itself until the stack is full, then returns until it is empty
RecurseRom ==
  WordsToBytes(<< Op(2, 2, 0, 0), Op(0, 0, 14, 14), Op(0, 0, 15, 13) >>)

\* 0x200: CALL 0x206; 0x202: CALL 0x20A; 0x204: HALT;
\* 0x206: CALL 0x20A; 0x208: RET; 0x20A: RET
NestedRom ==
  WordsToBytes(<< Op(2, 2, 0, 6), Op(2, 2, 0, 10), Op(0, 0, 15, 13),
                  Op(2, 2, 0, 10), Op(0, 0, 14, 14), Op(0, 0, 14, 14) >>)

\* V1 = 9; delay = V1; sound = V1; 0x206: wait key -> V3; V3 += 1; HALT
WaitKeyRom ==
  WordsToBytes(<< Op(6, 1, 0, 9), Op(15, 1, 1, 5), Op(15, 1, 1, 8),
                  Op(15, 3, 0, 10), Op(7, 3, 0, 1), Op(0, 0, 15, 13) >>)

\* V0 = 200; V1 = 100; 8014; 8015; 8016; 801E; 8F14; 8100; HALT
AluRom ==
  WordsToBytes(<< Op(6, 0, 12, 8), Op(6, 1, 6, 4), Op(8, 0, 1, 4),
                  Op(8, 0, 1, 5), Op(8, 0, 1, 6), Op(8, 0, 1, 14),
                  Op(8, 15, 1, 4), Op(8, 1, 0, 0), Op(0, 0, 15, 13) >>)

\* V0 = 3; delay = V0; sound = V0; 0x206: V1 = delay; skip if V1 == 0;
\* jump 0x206; HALT
TimersRom ==
  WordsToBytes(<< Op(6, 0, 0, 3), Op(15, 0, 1, 5), Op(15, 0, 1, 8),
                  Op(15, 1, 0, 7), Op(3, 1, 0, 0), Op(1, 2, 0, 6),
                  Op(0, 0, 15, 13) >>)

\* VA = 62; VB = 30; I = 0x20E; draw 6 rows twice; clear; HALT; sprite data
DrawRom ==
  WordsToBytes(<< Op(6, 10, 3, 14), Op(6, 11, 1, 14), Op(10, 2, 0, 14),
                  Op(13, 10, 11, 6), Op(13, 10, 11, 6), Op(0, 0, 14, 0),
                  Op(0, 0, 15, 13),
                  Op(15, 15, 8, 1), Op(8, 1, 8, 1), Op(15, 15, 0, 0) >>)

\* V0 = 4; skip if key V0 pressed; V1 = 1; skip if key V0 not pressed;
\* V2 = 1; HALT
KeysRom ==
  WordsToBytes(<< Op(6, 0, 0, 4), Op(14, 0, 9, 14), Op(6, 1, 0, 1),
                  Op(14, 0, 10, 1), Op(6, 2, 0, 1), Op(0, 0, 15, 13) >>)

\* I = 0x300; V0 = 234; BCD; load V0..V2; I = 0x310; store V0..V2;
\* skip if V0 == V1; skip if V0 != V1; (skipped); I = font of V2;
\* skip if V1 != 3; jump V0 + 0x216; 0x218: HALT
MiscRom ==
  WordsToBytes(<< Op(10, 3, 0, 0), Op(6, 0, 14, 10), Op(15, 0, 3, 3),
                  Op(15, 2, 6, 5), Op(10, 3, 1, 0), Op(15, 2, 5, 5),
                  Op(5, 0, 1, 0), Op(9, 0, 1, 0), Op(0, 0, 0, 0),
                  Op(15, 2, 2, 9), Op(4, 1, 0, 3), Op(11, 2, 1, 6),
                  Op(0, 0, 15, 13) >>)

\* jump to 0xFFE: the program counter runs past the end of the memory
RunOffRom == WordsToBytes(<< Op(1, 15, 15, 14) >>)

\* I = 0xFFF; store V0..V1 at I
StoreOobRom == WordsToBytes(<< Op(10, 15, 15, 15), Op(15, 1, 5, 5) >>)

\* one byte more than fits between 0x200 and the end of the memory
TooLargeRom == [i \in 1..(MEMORY_SIZE - PROGRAM_START + 1) |-> 0]

\* 5xy1, Fxkk with kk = FF and 0nnn select no arm of execute's match;
\* then V0 = 5; HALT
UnknownRom ==
  WordsToBytes(<< Op(5, 0, 1, 1), Op(15, 15, 15, 15), Op(0, 1, 2, 3),
                  Op(6, 0, 0, 5), Op(0, 0, 15, 13) >>)

\* V0 = 62; V1 = 30; I = glyph 0; draw at (62, 30); V2 = 64; draw at
\* (64, 30), over a part of the first; V3 = 10; draw at (10, 10); HALT
SpritesRom ==
  WordsToBytes(<< Op(6, 0, 3, 14), Op(6, 1, 1, 14), Op(10, 0, 5, 0),
                  Op(13, 0, 1, 5), Op(6, 2, 4, 0), Op(13, 2, 1, 5),
                  Op(6, 3, 0, 10), Op(13, 3, 3, 5), Op(0, 0, 15, 13) >>)

\* the file system: path -> contents
\* V0 = 5; then each skip opcode once with its condition true (over a
\* 0000) and once with it false: 3005, 3006, 4006, 4005; V1 = 5; 5010,
\* 5020, 9020, 9010; HALT
SkipsRom ==
  WordsToBytes(<< Op(6, 0, 0, 5), Op(3, 0, 0, 5), Op(0, 0, 0, 0),
                  Op(3, 0, 0, 6), Op(4, 0, 0, 6), Op(0, 0, 0, 0),
                  Op(4, 0, 0, 5), Op(6, 1, 0, 5), Op(5, 0, 1, 0),
                  Op(0, 0, 0, 0), Op(5, 0, 2, 0), Op(9, 0, 2, 0),
                  Op(0, 0, 0, 0), Op(9, 0, 1, 0), Op(0, 0, 15, 13) >>)

RomFiles ==
  [call_ret   |-> CallRetRom,
   recurse    |-> RecurseRom,
   nested     |-> NestedRom,
   wait_key   |-> WaitKeyRom,
   alu        |-> AluRom,
   timers     |-> TimersRom,
   draw       |-> DrawRom,
   keys       |-> KeysRom,
   misc       |-> MiscRom,
   run_off    |-> RunOffRom,
   store_oob  |-> StoreOobRom,
   too_large  |-> TooLargeRom,
   unknown    |-> UnknownRom,
   sprites    |-> SpritesRom,
   skips      |-> SkipsRom,
   while_loop |-> CompiledRom(WhileProgram),
   for_loop   |-> CompiledRom(ForProgram)]

\* the host keys a snapshot of window.get_keys() is drawn from
HostKeys == {"Q", "Key4", "Space"}

\* ------------------------------------------------------------------------
\* chip8/src/main.rs: main and run_emulation
\* phase is the position of the process:
\*   "main"     before load_rom          "input"   at the head of the loop
\*   "cycle"    before cpu.cycle()       "timers"  before the 60 Hz gate
\*   "keywait"  before the key latch     "redraw"  before the redraw
\*   "finished" the loop was left        "exited"  process::exit(1)
\*   "panicked" an index out of range aborted the process
\* fetch_log is the sequence of <<PC, opcode>> that fetch prints
\* ------------------------------------------------------------------------
VARIABLES rom_path, cpu, phase, cycle_count, fetch_log

\* ------------------------------------------------------------------------
\* Callers of the library functions, outside the emulator's main:
\*   screen    a Display that draw_sprite is called on directly
\*   draw_log  one record per draw_sprite call on screen: the arguments,
\*             the pixels before the call and the returned collision flag
\*   program   the ast::Program handed to the backend (micro-py main)
\*   backend   the Chip8Backend that backend_type.create() returned
\*   outputs   the Result of every backend.compile(&program) call so far
\*   calls     one record per direct call of a CPU method: what the call
\*             was given and what it printed
\* ------------------------------------------------------------------------
VARIABLES screen, draw_log, program, backend, outputs, calls

vars ==
  <<rom_path, cpu, phase, cycle_count, fetch_log,
    screen, draw_log, program, backend, outputs, calls>>

\* the emulator's variables and the library callers' variables
machine == <<rom_path, cpu, phase, cycle_count, fetch_log>>
bench == <<screen, draw_log, program, backend, outputs, calls>>

\* no library caller is active
BenchIdle ==
  /\ screen = Display_new
  /\ draw_log = << >>
  /\ program = << >>
  /\ backend = Chip8Backend_new
  /\ outputs = << >>
  /\ calls = << >>

\* the emulator has not been started
MachineIdle ==
  /\ rom_path = "none"
  /\ cpu = CPU_new
  /\ phase = "idle"
  /\ cycle_count = 0
  /\ fetch_log = << >>

Init ==
  /\ rom_path \in DOMAIN RomFiles
  /\ cpu = CPU_new
  /\ phase = "main"
  /\ cycle_count = 0
  /\ fetch_log = << >>
  /\ BenchIdle

\* main: load the ROM, leave with exit code 1 when that fails
Main ==
  /\ phase = "main"
  /\ LET r == load_rom(cpu, RomFiles[rom_path])
     IN /\ cpu' = r.cpu
        /\ phase' = IF r.ok THEN "input" ELSE "exited"
  /\ UNCHANGED <<rom_path, cycle_count, fetch_log>>
  /\ UNCHANGED bench

\* the loop condition holds: handle_keyboard_input
HandleKeyboardInput(keys) ==
  /\ phase = "input"
  /\ cycle_count < MaxCycles
  /\ cpu' = [cpu EXCEPT !.keyboard = update_from_minifb(@, keys)]
  /\ phase' = "cycle"
  /\ UNCHANGED <<rom_path, cycle_count, fetch_log>>
  /\ UNCHANGED bench

\* the loop condition fails: the window was closed or Escape is down
WindowClosed ==
  /\ phase = "input"
  /\ phase' = "finished"
  /\ UNCHANGED <<rom_path, cpu, cycle_count, fetch_log>>
  /\ UNCHANGED bench

\* cpu.cycle(); cycle_count += 1
Cycle ==
  /\ phase = "cycle"
  /\ IF cycle_panics(cpu)
       THEN /\ phase' = "panicked"
            /\ UNCHANGED <<cpu, cycle_count, fetch_log>>
       ELSE /\ cpu' = cycle(cpu)
            /\ cycle_count' = cycle_count + 1
            /\ fetch_log' = IF cycle_fetches(cpu)
                              THEN Append(fetch_log,
                                          <<cpu.program_counter,
                                            fetch(cpu).opcode>>)
                              ELSE fetch_log
            /\ phase' = "timers"
  /\ UNCHANGED rom_path
  /\ UNCHANGED bench

\* if last_timer_update.elapsed() >= 16 ms { cpu.update_timers() }
TimerGate(elapsed) ==
  /\ phase = "timers"
  /\ cpu' = IF elapsed THEN update_timers(cpu) ELSE cpu
  /\ phase' = "keywait"
  /\ UNCHANGED <<rom_path, cycle_count, fetch_log>>
  /\ UNCHANGED bench

\* a pending Fx0A takes the first pressed key
KeyWait ==
  /\ phase = "keywait"
  /\ cpu' = IF cpu.waiting_for_key # None
                 /\ get_pressed_key(cpu.keyboard) # None
              THEN [cpu EXCEPT
                      !.registers[cpu.waiting_for_key] =
                         get_pressed_key(cpu.keyboard),
                      !.waiting_for_key = None]
              ELSE cpu
  /\ phase' = "redraw"
  /\ UNCHANGED <<rom_path, cycle_count, fetch_log>>
  /\ UNCHANGED bench

\* present the frame when needs_redraw is set, and clear the flag
Redraw ==
  /\ phase = "redraw"
  /\ cpu' = IF cpu.display.needs_redraw
              THEN [cpu EXCEPT !.display.needs_redraw = FALSE]
              ELSE cpu
  /\ phase' = "input"
  /\ UNCHANGED <<rom_path, cycle_count, fetch_log>>
  /\ UNCHANGED bench

Next ==
  \/ Main
  \/ \E keys \in SUBSET HostKeys : HandleKeyboardInput(keys)
  \/ WindowClosed
  \/ Cycle
  \/ \E elapsed \in BOOLEAN : TimerGate(elapsed)
  \/ KeyWait
  \/ Redraw

Spec == Init /\ [][Next]_vars

\* ------------------------------------------------------------------------
\* Display::draw_sprite called directly: a sprite is drawn on a screen and
\* the same sprite is then drawn again at the same coordinates
\* ------------------------------------------------------------------------
\* sprites have at most this many rows
MaxRows == 2

\* the pixels that may be lit before the first draw
LitBefore == {<<0, 0>>, <<63, 0>>, <<2, 1>>, <<63, 31>>}

\* the u8 coordinates and the sprite bytes the calls are made with
DrawXs == {0, 62, 63, 130}
DrawYs == {0, 31, 33}
SpriteBytes == {0, 128, 129, 255}
Sprites == UNION {[1..n -> SpriteBytes] : n \in 0..MaxRows}

DrawInit ==
  /\ screen \in {[pixels |-> g, needs_redraw |-> FALSE] : g \in SUBSET LitBefore}
  /\ draw_log = << >>
  /\ program = << >>
  /\ backend = Chip8Backend_new
  /\ outputs = << >>
  /\ calls = << >>
  /\ MachineIdle

\* let collision = screen.draw_sprite(x, y, &sprite)
DrawCall(x, y, sprite) ==
  /\ screen' = draw_sprite(screen, x, y, sprite).display
  /\ draw_log' = Append(draw_log,
                        [x |-> x, y |-> y, sprite |-> sprite,
                         before |-> screen.pixels,
                         collision |-> draw_sprite(screen, x, y, sprite).collision])
  /\ UNCHANGED <<program, backend, outputs, calls>>
  /\ UNCHANGED machine

FirstDraw(x, y, sprite) ==
  /\ draw_log = << >>
  /\ DrawCall(x, y, sprite)

SameDrawAgain ==
  /\ Len(draw_log) = 1
  /\ DrawCall(draw_log[1].x, draw_log[1].y, draw_log[1].sprite)

DrawNext ==
  \/ \E x \in DrawXs, y \in DrawYs, sprite \in Sprites : FirstDraw(x, y, sprite)
  \/ SameDrawAgain

DrawSpec == DrawInit /\ [][DrawNext]_vars

\* ------------------------------------------------------------------------
\* micro-py/src/main.rs, Commands::Compile: a backend is created and
\* compile is called on it with the parsed program
\* ------------------------------------------------------------------------
\* compile is called at most this many times on one backend
MaxCompiles == 2

vA == <<"v", "A">>
Registers == {v0, v1, vA}
Numbers == {Number(0), Number(5), Number(255)}
Variables == {Variable(r) : r \in Registers}

EqualityConditions ==
  {Equal(l, r) : l \in Variables, r \in Numbers \cup Variables}
    \cup {NotEqual(l, r) : l \in Variables, r \in Numbers \cup Variables}

Conditions ==
  EqualityConditions
    \cup {Greater(l, r) : l \in Variables, r \in Numbers}
    \cup {Equal(Number(5), Variable(v0)), Less(Variable(v0), Number(5)),
          KeyPressed(Variable(v0)), CondTrue}

Bodies == {<< >>, <<ClearScreen>>, <<Assign(v1, Number(7)), ClearScreen>>}

\* the statements that may precede the loop
Prefixes == {<< >>, <<ClearScreen>>}

WhilePrograms ==
  {pre \o <<While(c, b)>> : pre \in Prefixes, c \in Conditions, b \in Bodies}

ForStarts ==
  {Number(0), Variable(v0), BinaryOp(Variable(v0), "Add", Number(1))}
ForEnds ==
  {Number(3), Variable(v1), BinaryOp(Variable(v1), "Add", Number(1))}

ForPrograms ==
  {pre \o <<For(r, s, e, b)>> :
     pre \in Prefixes, r \in Registers, s \in ForStarts, e \in ForEnds,
     b \in Bodies}

\* label names, and programs of labels and jumps
top == <<"t", "o", "p">>
end == <<"e", "n", "d">>

JumpPrograms ==
  {<<Label(top), ClearScreen, Jump(top)>>,
   <<ClearScreen, Label(top), Assign(v0, Number(5)), Jump(top)>>,
   <<Jump(end), ClearScreen, Label(end)>>,
   <<ClearScreen, Jump(end), Label(end), ClearScreen>>,
   <<Label(top), ClearScreen, Label(end)>>,
   <<ClearScreen, Label(top), Label(end), ClearScreen, Label(top)>>}

\* an assignment of a binary operation, followed by one more statement
BinaryOperators == {"Add", "Subtract", "Xor"}
Operands ==
  {Number(5), Variable(v1), BinaryOp(Variable(v0), "Add", Number(1))}

AssignPrograms ==
  {pre \o <<Assign(r, BinaryOp(l, op, rr)), ClearScreen>> :
     pre \in Prefixes, r \in Registers, l \in Operands,
     op \in BinaryOperators, rr \in Operands}

\* print(vx, vy, "d") for the sixteen hex digits
DigitChars ==
  <<"0", "1", "2", "3", "4", "5", "6", "7",
    "8", "9", "A", "B", "C", "D", "E", "F">>

PrintPrograms ==
  {pre \o <<PrintChar(Variable(rx), Variable(ry), DigitChars[d + 1])>> :
     pre \in Prefixes, rx \in {v0, vA}, ry \in {v1, vA}, d \in 0..15}

\* vx = n, vx = vy, vx = vy + n, vx = n + vy, vx = vy + vz
LoweringValues ==
  Numbers \cup Variables
    \cup {BinaryOp(l, "Add", r) : l \in Variables, r \in Numbers}
    \cup {BinaryOp(l, "Add", r) : l \in Numbers, r \in Variables}
    \cup {BinaryOp(l, "Add", r) : l \in Variables, r \in Variables}

LoweringPrograms ==
  {pre \o <<Assign(r, value)>> :
     pre \in Prefixes, r \in Registers, value \in LoweringValues}

\* one load of a literal, up to the largest u16: vx = n, the bound of
\* `for vx in range(0, n)` and the operand of `while vx > n`
LiteralNumbers == Numbers \cup {Number(256), Number(4096), Number(65535)}

LiteralLoadPrograms ==
  {pre \o <<st>> :
     pre \in Prefixes,
     st \in UNION {{Assign(r, n), For(r, Number(0), n, << >>),
                    While(Greater(Variable(r), n), << >>)} :
                     r \in Registers, n \in LiteralNumbers}}

Programs ==
  WhilePrograms \cup ForPrograms \cup JumpPrograms \cup AssignPrograms
    \cup PrintPrograms \cup LoweringPrograms \cup LiteralLoadPrograms

CompileInit ==
  /\ program \in Programs
  /\ backend = Chip8Backend_new
  /\ outputs = << >>
  /\ calls = << >>
  /\ screen = Display_new
  /\ draw_log = << >>
  /\ MachineIdle

\* let machine_code = backend.compile(&program): the Result is Ok with a
\* clone of the backend's code, or Err with the error's variant
Compile ==
  /\ Len(outputs) < MaxCompiles
  /\ LET st == compile(backend, program)
     IN /\ backend' = [st EXCEPT !.result = "Ok"]
        /\ outputs' = Append(outputs,
                             IF st.result = "Ok"
                               THEN [ok |-> TRUE, code |-> st.code]
                               ELSE [ok |-> FALSE, error |-> st.result])
  /\ UNCHANGED <<program, screen, draw_log, calls>>
  /\ UNCHANGED machine

CompileNext == Compile

CompileSpec == CompileInit /\ [][CompileNext]_vars

\* ------------------------------------------------------------------------
\* Chip8Backend::patch_jump called directly on a backend that holds code,
\* with the addresses emit_jump_placeholder can return (even, from 0x200
\* on) and any u16 as target
\* ------------------------------------------------------------------------
\* patch_jump is called at most this many times on one backend
MaxPatches == 2

\* no code; a placeholder; clear, placeholder, clear
PatchBackends ==
  {Chip8Backend_new,
   emit_jump_placeholder(Chip8Backend_new),
   compile_clear_screen(
     emit_jump_placeholder(compile_clear_screen(Chip8Backend_new)))}

PatchAddresses == {512, 514, 516, 518, 522}
PatchTargets == {0, 512, 683, 4095, 4096, 8708, 65535}

PatchInit ==
  /\ backend \in PatchBackends
  /\ calls = << >>
  /\ program = << >>
  /\ outputs = << >>
  /\ screen = Display_new
  /\ draw_log = << >>
  /\ MachineIdle

\* self.patch_jump(placeholder_address, target_address)
PatchJump(placeholder_address, target_address) ==
  /\ Len(calls) < MaxPatches
  /\ backend' = patch_jump(backend, placeholder_address, target_address)
  /\ calls' = Append(calls, [placeholder_address |-> placeholder_address,
                             target_address      |-> target_address,
                             before              |-> backend.code])
  /\ UNCHANGED <<program, outputs, screen, draw_log>>
  /\ UNCHANGED machine

PatchNext ==
  \E a \in PatchAddresses, t \in PatchTargets : PatchJump(a, t)

PatchSpec == PatchInit /\ [][PatchNext]_vars

\* ------------------------------------------------------------------------
\* CPU::update_timers called directly, tick after tick, on a CPU whose
\* timers hold values that Fx15 and Fx18 can give them
\* ------------------------------------------------------------------------
\* update_timers is called at most this many times on one CPU
MaxTicks == 257

TimerValues == {0, 1, 2, 3, 255}

TimerInit ==
  /\ cpu \in {[CPU_new EXCEPT !.delay_timer = d, !.sound_timer = s] :
               d \in TimerValues, s \in TimerValues}
  /\ calls = << >>
  /\ rom_path = "none"
  /\ phase = "idle"
  /\ cycle_count = 0
  /\ fetch_log = << >>
  /\ screen = Display_new
  /\ draw_log = << >>
  /\ program = << >>
  /\ backend = Chip8Backend_new
  /\ outputs = << >>

\* cpu.update_timers(); the record keeps the timers before the call and
\* whether the call printed BEEP!
Tick ==
  /\ Len(calls) < MaxTicks
  /\ cpu' = update_timers(cpu)
  /\ calls' = Append(calls, [delay_timer |-> cpu.delay_timer,
                             sound_timer |-> cpu.sound_timer,
                             beep        |-> update_timers_beeps(cpu)])
  /\ UNCHANGED <<rom_path, phase, cycle_count, fetch_log>>
  /\ UNCHANGED <<screen, draw_log, program, backend, outputs>>

TimerNext == Tick

TimerSpec == TimerInit /\ [][TimerNext]_vars

\* ------------------------------------------------------------------------
\* CPU::load_rom and CPU::cycle called directly on one CPU: a ROM is
\* loaded, some cycles are run, a ROM is loaded again
\*   calls       one record per load_rom call: the ROM and whether Ok
\*   phase       "idle", then the outcome of the latest call: "loaded",
\*               "refused", "ran" (a cycle), "panicked"
\*   cycle_count the number of cycle() calls
\* ------------------------------------------------------------------------
\* load_rom and cycle are called at most this many times on one CPU
MaxLoads == 2
MaxRuns == 4

\* V0 = 0x2A; I = 0x050; store V0 at I (over the font); CALL 0x208
SetupRom ==
  WordsToBytes(<< Op(6, 0, 2, 10), Op(10, 0, 5, 0), Op(15, 0, 5, 5),
                  Op(2, 2, 0, 8) >>)

\* ROMs of 0, 2, 8, 3584 and 3585 bytes
LoadRoms ==
  [empty     |-> << >>,
   short     |-> WordsToBytes(<< Op(0, 0, 14, 0) >>),
   setup     |-> SetupRom,
   largest   |-> [i \in 1..3584 |-> (i % 255) + 1],
   oversize  |-> [i \in 1..3585 |-> (i % 255) + 1]]

LoadInit ==
  /\ cpu = CPU_new
  /\ calls = << >>
  /\ rom_path = "none"
  /\ phase = "idle"
  /\ cycle_count = 0
  /\ fetch_log = << >>
  /\ screen = Display_new
  /\ draw_log = << >>
  /\ program = << >>
  /\ backend = Chip8Backend_new
  /\ outputs = << >>

\* cpu.load_rom(name)
LoadRom(name) ==
  /\ phase # "panicked"
  /\ Len(calls) < MaxLoads
  /\ LET r == load_rom(cpu, LoadRoms[name])
     IN /\ cpu' = r.cpu
        /\ calls' = Append(calls, [rom |-> name, ok |-> r.ok])
        /\ phase' = IF r.ok THEN "loaded" ELSE "refused"
  /\ rom_path' = name
  /\ UNCHANGED <<cycle_count, fetch_log>>
  /\ UNCHANGED <<screen, draw_log, program, backend, outputs>>

\* cpu.cycle(), once a ROM is in memory
Run ==
  /\ phase \in {"loaded", "ran"}
  /\ cycle_count < MaxRuns
  /\ IF cycle_panics(cpu)
       THEN phase' = "panicked" /\ UNCHANGED <<cpu, cycle_count>>
       ELSE cpu' = cycle(cpu) /\ cycle_count' = cycle_count + 1
              /\ phase' = "ran"
  /\ UNCHANGED <<rom_path, fetch_log>>
  /\ UNCHANGED bench

LoadNext ==
  \/ \E name \in DOMAIN LoadRoms : LoadRom(name)
  \/ Run

LoadSpec == LoadInit /\ [][LoadNext]_vars

\* ------------------------------------------------------------------------
\* CPU::execute called on one opcode, on a CPU whose registers and index
\* register hold values that 6xkk and Annn can give them
\*   calls  one record per execute call: the opcode
\*   phase  "idle", then "executed", or "panicked" when an index was out
\*          of range
\* ------------------------------------------------------------------------
\* execute is called at most this many times on one CPU
MaxExecs == 2

\* V0 = v and V3 = 255 - v for every byte v; I at 0, at 0x300 and at the
\* last two addresses before the end of the memory
ExecIndexes == {0, 768, 4093, 4094}
ExecStates ==
  {[CPU_new EXCEPT !.registers[0] = v, !.registers[3] = 255 - v,
                   !.index_register = i] :
     v \in 0..255, i \in ExecIndexes}

\* F033 and F333
ExecOpcodes == {Op(15, 0, 3, 3), Op(15, 3, 3, 3)}

ExecInit ==
  /\ cpu \in ExecStates
  /\ calls = << >>
  /\ rom_path = "none"
  /\ phase = "idle"
  /\ cycle_count = 0
  /\ fetch_log = << >>
  /\ screen = Display_new
  /\ draw_log = << >>
  /\ program = << >>
  /\ backend = Chip8Backend_new
  /\ outputs = << >>

\* self.execute(opcode)
Execute(opcode) ==
  /\ phase # "panicked"
  /\ Len(calls) < MaxExecs
  /\ IF execute_panics(cpu, opcode)
       THEN phase' = "panicked" /\ UNCHANGED cpu
       ELSE phase' = "executed" /\ cpu' = execute(cpu, opcode)
  /\ calls' = Append(calls, [opcode |-> opcode])
  /\ UNCHANGED <<rom_path, cycle_count, fetch_log>>
  /\ UNCHANGED <<screen, draw_log, program, backend, outputs>>

ExecNext == \E opcode \in ExecOpcodes : Execute(opcode)

ExecSpec == ExecInit /\ [][ExecNext]_vars

\* ------------------------------------------------------------------------
\* CPU::execute called on Fx55, then on register loads 6xkk, then on Fx65
\* with the same x, the index register and the memory left alone between
\*   calls  one record per execute call: the opcode and the registers
\*          before the call
\*   phase  "idle", "stored", "restored", or "panicked" when an index was
\*          out of range
\* ------------------------------------------------------------------------
\* at most this many 6xkk are executed between the Fx55 and the Fx65
MaxClobbers == 2

\* two register files with sixteen different values each; I at 0x300, at
\* 0xFF0 (V0..VF just fit) and at 0xFFA (V0..V5 just fit)
RegisterFiles ==
  {[r \in 0..15 |-> (17 * r + 1) % 256], [r \in 0..15 |-> 255 - r]}
StoreIndexes == {768, 4080, 4090}
ClobberValues == {0, 170}

StoreInit ==
  /\ cpu \in {[CPU_new EXCEPT !.registers = regs, !.index_register = i] :
               regs \in RegisterFiles, i \in StoreIndexes}
  /\ calls = << >>
  /\ rom_path = "none"
  /\ phase = "idle"
  /\ cycle_count = 0
  /\ fetch_log = << >>
  /\ screen = Display_new
  /\ draw_log = << >>
  /\ program = << >>
  /\ backend = Chip8Backend_new
  /\ outputs = << >>

\* self.execute(opcode), recorded; phase next when no index is out of range
ExecuteLogged(opcode, next) ==
  /\ IF execute_panics(cpu, opcode)
       THEN phase' = "panicked" /\ UNCHANGED cpu
       ELSE phase' = next /\ cpu' = execute(cpu, opcode)
  /\ calls' = Append(calls, [opcode |-> opcode, registers |-> cpu.registers])
  /\ UNCHANGED <<rom_path, cycle_count, fetch_log>>
  /\ UNCHANGED <<screen, draw_log, program, backend, outputs>>

\* Fx55
Store(x) ==
  /\ phase = "idle"
  /\ ExecuteLogged(Op(15, x, 5, 5), "stored")

\* 6xkk on V0, on the last stored register or on VF
Clobber(x, kk) ==
  /\ phase = "stored"
  /\ Len(calls) <= MaxClobbers
  /\ x \in {0, Nibbles(calls[1].opcode)[2], 15}
  /\ ExecuteLogged(Op(6, x, 0, 0) + kk, "stored")

\* Fx65 with the x of the Fx55
Restore ==
  /\ phase = "stored"
  /\ ExecuteLogged(Op(15, Nibbles(calls[1].opcode)[2], 6, 5), "restored")

StoreNext ==
  \/ \E x \in 0..15 : Store(x)
  \/ \E x \in 0..15, kk \in ClobberValues : Clobber(x, kk)
  \/ Restore

StoreSpec == StoreInit /\ [][StoreNext]_vars

\* ------------------------------------------------------------------------
\* Keyboard::update_from_minifb called directly on the CPU's keyboard,
\* snapshot after snapshot
\*   calls  one record per call: the host keys of the snapshot
\* ------------------------------------------------------------------------
\* update_from_minifb is called at most this many times on one keyboard
MaxUpdates == 2

\* the sixteen host keys of the match, and two it has no arm for
AllHostKeys ==
  {"Key1", "Key2", "Key3", "Key4", "Q", "W", "E", "R",
   "A", "S", "D", "F", "Z", "X", "C", "V", "Space", "Escape"}

\* no key, every single key, some groups, all keys
KeySnapshots ==
  {{}} \cup {{key} : key \in AllHostKeys}
    \cup {{"Key1", "Q"}, {"X", "Space"}, {"Key4", "R", "V"}, AllHostKeys}

KeyInit ==
  /\ cpu = CPU_new
  /\ calls = << >>
  /\ rom_path = "none"
  /\ phase = "idle"
  /\ cycle_count = 0
  /\ fetch_log = << >>
  /\ screen = Display_new
  /\ draw_log = << >>
  /\ program = << >>
  /\ backend = Chip8Backend_new
  /\ outputs = << >>

\* cpu.keyboard.update_from_minifb(&keys)
Update(keys) ==
  /\ Len(calls) < MaxUpdates
  /\ cpu' = [cpu EXCEPT !.keyboard = update_from_minifb(@, keys)]
  /\ calls' = Append(calls, [keys |-> keys])
  /\ UNCHANGED <<rom_path, phase, cycle_count, fetch_log>>
  /\ UNCHANGED <<screen, draw_log, program, backend, outputs>>

KeyNext == \E keys \in KeySnapshots : Update(keys)

KeySpec == KeyInit /\ [][KeyNext]_vars

\* ------------------------------------------------------------------------
\* The comparison sequence of compile_for and compile_greater_check, run
\* from 0x200 on a CPU that executes 8xy0 and 8xy5 as section 4.1 of the
\* specification defines them (execute itself has no arm for them)
\*   phase   "running", or "compared" when the 3F01 that ends a comparison
\*           has just been executed
\*   calls   one record per comparison: the registers before its VE load
\* ------------------------------------------------------------------------
\* at most this many cycles are run on one ROM
MaxCompareCycles == 8

\* 8xy0: Vx = Vy
op_8xy0(c, x, y) == [c EXCEPT !.registers[x] = c.registers[y]]

\* 8xy5: Vx = Vx - Vy, then VF = 1 if there was no borrow, else 0
op_8xy5(c, x, y) ==
  LET vx == c.registers[x]
      vy == c.registers[y]
  IN [c EXCEPT !.registers =
        [[c.registers EXCEPT ![x] = (vx + 256 - vy) % 256]
           EXCEPT ![15] = IF vx >= vy THEN 1 ELSE 0]]

\* execute, with the two 8xyN opcodes the backend emits for a comparison
execute_alu(c, opcode) ==
  LET nib == Nibbles(opcode)
  IN IF nib[1] = 8 /\ nib[4] = 0 THEN op_8xy0(c, nib[2], nib[3])
     ELSE IF nib[1] = 8 /\ nib[4] = 5 THEN op_8xy5(c, nib[2], nib[3])
     ELSE execute(c, opcode)

\* `for vx in range(s, e)` and `vx = s; while vx > n`, with empty bodies
CompareStarts == {Number(0), Number(3), Number(5)}
CompareBounds == {Number(0), Number(3), Variable(v1)}

ComparePrograms ==
  {<<For(r, s, e, << >>)>> :
     r \in Registers, s \in CompareStarts, e \in CompareBounds}
    \cup {<<Assign(r, s), While(Greater(Variable(r), n), << >>)>> :
            r \in Registers, s \in CompareStarts, n \in CompareStarts}

CompareInit ==
  /\ program \in ComparePrograms
  /\ backend = compile(Chip8Backend_new, program)
  /\ outputs = <<[ok |-> TRUE, code |-> backend.code]>>
  /\ cpu = load_rom(CPU_new, backend.code).cpu
  /\ calls = << >>
  /\ rom_path = "none"
  /\ phase = "running"
  /\ cycle_count = 0
  /\ fetch_log = << >>
  /\ screen = Display_new
  /\ draw_log = << >>

\* the opcode loads VE: 6Enn or 8Ey0
LoadsVE(opcode) ==
  /\ Nibbles(opcode)[2] = 14
  /\ \/ Nibbles(opcode)[1] = 6
     \/ Nibbles(opcode)[1] = 8 /\ Nibbles(opcode)[4] = 0

\* the opcode is 8xE5
SubtractsVE(opcode) ==
  /\ Nibbles(opcode)[1] = 8
  /\ Nibbles(opcode)[3] = 14
  /\ Nibbles(opcode)[4] = 5

\* cpu.cycle(): fetch, execute, update_timers
CompareCycle ==
  /\ cycle_count < MaxCompareCycles
  /\ cycle_fetches(cpu)
  /\ ~fetch_panics(cpu)
  /\ LET opcode == fetch(cpu).opcode
     IN /\ ~execute_panics(fetch(cpu).cpu, opcode)
        /\ cpu' = update_timers(execute_alu(fetch(cpu).cpu, opcode))
        /\ fetch_log' = Append(fetch_log, <<cpu.program_counter, opcode>>)
        /\ calls' = IF LoadsVE(opcode)
                      THEN Append(calls, [registers |-> cpu.registers,
                                          index_register |->
                                            cpu.index_register])
                      ELSE calls
        /\ phase' = IF /\ opcode = Op(3, 15, 0, 1)
                       /\ Len(fetch_log) > 0
                       /\ SubtractsVE(fetch_log[Len(fetch_log)][2])
                      THEN "compared"
                      ELSE "running"
  /\ cycle_count' = cycle_count + 1
  /\ UNCHANGED <<rom_path, screen, draw_log, program, backend, outputs>>

CompareNext == CompareCycle

CompareSpec == CompareInit /\ [][CompareNext]_vars

\* ------------------------------------------------------------------------
\* Shorthands over the state
\* ------------------------------------------------------------------------
TypeOK ==
  /\ rom_path \in DOMAIN RomFiles
  /\ cpu.program_counter \in 0..65535
  /\ cpu.stack_pointer \in 0..255
  /\ \A i \in 0..15 : cpu.registers[i] \in 0..255
  /\ cpu.index_register \in 0..65535
  /\ cpu.delay_timer \in 0..255
  /\ cpu.sound_timer \in 0..255
  /\ cycle_count \in 0..MaxCycles

\* the last <<PC, opcode>> that fetch printed
LastFetch == fetch_log[Len(fetch_log)]

\* the program counter after the i-th fetched instruction was executed
PcAfter(i) ==
  IF i < Len(fetch_log) THEN fetch_log[i + 1][1] ELSE cpu.program_counter

\* a step of the Cycle action in which cycle() fetched and executed opcode
\* class arm
Executes(arm) ==
  /\ Cycle
  /\ cycle_fetches(cpu)
  /\ ~cycle_panics(cpu)
  /\ Decode(fetch(cpu).opcode) = arm

\* ------------------------------------------------------------------------
\* Claims
\* ------------------------------------------------------------------------

\* C1: a cycle() that executes Fx0A latches waiting_for_key = x with PC at
\* the next instruction; while the latch is set nothing is fetched and PC,
\* V, I, the stack and the memory keep their values; the latch is cleared
\* only by the driver's key step when some key is pressed, which writes the
\* smallest pressed key index into V[x] and leaves the other registers; the
\* instruction fetched next is the one right after the Fx0A.
C1_WaitForKey ==
  [][ /\ Executes("fx0a") =>
           /\ cpu'.waiting_for_key = Nibbles(fetch(cpu).opcode)[2]
           /\ cpu'.program_counter = cpu.program_counter + 2
      /\ cpu.waiting_for_key # None =>
           /\ fetch_log' = fetch_log
           /\ cpu'.program_counter = cpu.program_counter
           /\ cpu'.index_register = cpu.index_register
           /\ cpu'.stack = cpu.stack
           /\ cpu'.stack_pointer = cpu.stack_pointer
           /\ cpu'.memory = cpu.memory
           /\ IF phase = "keywait" /\ \E k \in 0..15 : cpu.keyboard.keys[k]
                THEN /\ cpu'.waiting_for_key = None
                     /\ cpu.keyboard.keys[cpu'.registers[cpu.waiting_for_key]]
                     /\ \A k \in 0..15 :
                          cpu.keyboard.keys[k] =>
                            cpu'.registers[cpu.waiting_for_key] <= k
                     /\ \A i \in 0..15 :
                          i # cpu.waiting_for_key =>
                            cpu'.registers[i] = cpu.registers[i]
                ELSE /\ cpu'.waiting_for_key = cpu.waiting_for_key
                     /\ cpu'.registers = cpu.registers
      /\ (/\ Len(fetch_log) > 0
          /\ Len(fetch_log') > Len(fetch_log)
          /\ Decode(LastFetch[2]) = "fx0a") =>
           fetch_log'[Len(fetch_log')][1] = LastFetch[1] + 2
    ]_vars

\* C1 witness: the driver has just resolved the F30A at 0x206 after at
\* least one idle cycle(), with keys 4 and C both down: V3 took key 4
C1_Witness ==
  /\ rom_path = "wait_key"
  /\ phase = "redraw"
  /\ Len(fetch_log) = 4
  /\ LastFetch = <<518, Op(15, 3, 0, 10)>>
  /\ cycle_count > Len(fetch_log)
  /\ cpu.waiting_for_key = None
  /\ cpu.keyboard.keys[4] /\ cpu.keyboard.keys[12]
  /\ cpu.registers[3] = 4
  /\ cpu.program_counter = 520

\* C2: a cycle() call made while running is false or waiting_for_key is set
\* leaves every field of the CPU as it was.
C2_CycleNoOp ==
  [][ (Cycle /\ (~cpu.running \/ cpu.waiting_for_key # None)) => cpu' = cpu
    ]_vars

\* C2 witness: cycle() has returned early on a halted machine whose timers
\* are still positive
C2_Witness ==
  /\ phase = "timers"
  /\ ~cpu.running
  /\ cycle_count > Len(fetch_log) + 1
  /\ cpu.delay_timer > 0
  /\ cpu.sound_timer > 0

\* C3: a cycle() call by itself never decrements delay_timer or
\* sound_timer: when it returns, each timer holds what fetch and execute
\* left in it, so that only the driver's 60 Hz gate counts the timers down.
C3_CycleLeavesTimers ==
  [][ (Cycle /\ cycle_fetches(cpu) /\ ~cycle_panics(cpu)) =>
        LET executed == execute(fetch(cpu).cpu, fetch(cpu).opcode)
        IN /\ cpu'.delay_timer = executed.delay_timer
           /\ cpu'.sound_timer = executed.sound_timer
    ]_vars

\* C4: the ROM compiled from `v0 = 0; while v0 != 5: v0 = v0 + 1`, once
\* halted, has V0 = 5 and was halted by the 00FD emitted after the loop.
C4_WhileEndsWithFive ==
  (rom_path = "while_loop" /\ ~cpu.running) =>
    /\ cpu.registers[0] = 5
    /\ LastFetch[2] = Op(0, 0, 15, 13)
    /\ LastFetch[1] = PROGRAM_START + Len(CompiledRom(WhileProgram)) - 2

\* the number of fetched instructions that were 00E0
ClearCount ==
  Cardinality({i \in 1..Len(fetch_log) : fetch_log[i][2] = Op(0, 0, 14, 0)})

\* C5: the ROM compiled from `for v1 in range(0, 3): clear()`, once halted,
\* has executed 00E0 exactly three times and has V1 = 3.
C5_ForClearsThreeTimes ==
  (rom_path = "for_loop" /\ ~cpu.running) =>
    /\ ClearCount = 3
    /\ cpu.registers[1] = 3

\* C6: the stack pointer stays within 0..16 in every reachable state.
C6_StackPointerRange == cpu.stack_pointer \in 0..16

\* C6 witness: a 2nnn was executed on a full stack and SP is still 16
C6_Witness ==
  /\ rom_path = "recurse"
  /\ Len(fetch_log) = 17
  /\ Decode(LastFetch[2]) = "2nnn"
  /\ cpu.stack_pointer = 16

\* C7: 2nnn on a full stack (SP = 16) and 00EE on an empty one (SP = 0)
\* leave the stack and SP as they were, leave PC at the post-fetch address
\* and keep the machine running.
C7_StackFaultsAreSafe ==
  [][ /\ (Executes("2nnn") /\ cpu.stack_pointer = 16) =>
           /\ cpu'.stack = cpu.stack
           /\ cpu'.stack_pointer = 16
           /\ cpu'.program_counter = cpu.program_counter + 2
           /\ cpu'.running
      /\ (Executes("00ee") /\ cpu.stack_pointer = 0) =>
           /\ cpu'.stack = cpu.stack
           /\ cpu'.stack_pointer = 0
           /\ cpu'.program_counter = cpu.program_counter + 2
           /\ cpu'.running
    ]_vars

\* C7 witness: after the overflowing call (17th fetch) and the sixteen
\* returns, the 00EE at 0x202 has just been executed on an empty stack
C7_Witness ==
  /\ rom_path = "recurse"
  /\ Len(fetch_log) = 34
  /\ fetch_log[17] = <<512, Op(2, 2, 0, 0)>>
  /\ LastFetch = <<514, Op(0, 0, 14, 14)>>
  /\ cpu.stack_pointer = 0
  /\ cpu.program_counter = 516
  /\ cpu.running

\* the return addresses that are outstanding after the first i fetched
\* instructions: a 2nnn at address a nested less than 16 deep adds a + 2,
\* a 00EE removes the most recent one
RECURSIVE OpenCalls(_)
OpenCalls(i) ==
  IF i = 0 THEN << >>
  ELSE Bind(OpenCalls(i - 1), LAMBDA s :
         IF Decode(fetch_log[i][2]) = "2nnn" /\ Len(s) < 16
           THEN Append(s, fetch_log[i][1] + 2)
         ELSE IF Decode(fetch_log[i][2]) = "00ee" /\ Len(s) > 0
           THEN SubSeq(s, 1, Len(s) - 1)
         ELSE s)

\* C8: returns are LIFO: every 00EE executed with a call outstanding
\* continues at the address right after the most recent 2nnn not yet
\* returned from, and SP is the number of outstanding calls, so that a
\* return brings SP back to its value before the matching call.
C8_ReturnsAreLifo ==
  /\ cpu.stack_pointer = Len(OpenCalls(Len(fetch_log)))
  /\ \A i \in 1..Len(fetch_log) :
       (Decode(fetch_log[i][2]) = "00ee" /\ Len(OpenCalls(i - 1)) > 0) =>
         PcAfter(i) = OpenCalls(i - 1)[Len(OpenCalls(i - 1))]

\* C8 witness: the nested calls of 0x200, 0x206 and 0x202 have all
\* returned and the machine has halted at 0x204
C8_Witness ==
  /\ rom_path = "nested"
  /\ ~cpu.running
  /\ Len(fetch_log) = 7
  /\ fetch_log[3] = <<522, Op(0, 0, 14, 14)>>
  /\ fetch_log[4] = <<520, Op(0, 0, 14, 14)>>
  /\ fetch_log[5] = <<514, Op(2, 2, 0, 10)>>
  /\ cpu.stack_pointer = 0

\* C9 as stated: on the call/return ROM, after two cycle() calls V0 = 0x2A
\* and PC = 0x204, and the third cycle() call halts the machine.
C9_CallRetAsStated ==
  rom_path = "call_ret" =>
    /\ cycle_count = 2 =>
         cpu.registers[0] = 42 /\ cpu.program_counter = 516
    /\ cycle_count = 3 => ~cpu.running

\* C9 amended: after two cycle() calls V0 = 0x2A and PC = 0x208; the third
\* cycle() call returns to 0x202; the fourth halts the machine at 0x204.
C9_CallRet ==
  rom_path = "call_ret" =>
    /\ cycle_count = 2 =>
         /\ cpu.registers[0] = 42
         /\ cpu.program_counter = 520
         /\ cpu.running
    /\ cycle_count = 3 => cpu.program_counter = 514 /\ cpu.running
    /\ cycle_count = 4 => cpu.program_counter = 516 /\ ~cpu.running

\* C9 witness: the fourth cycle() call has halted the call/return ROM
C9_Witness ==
  /\ rom_path = "call_ret"
  /\ cycle_count = 4
  /\ ~cpu.running
  /\ cpu.registers[0] = 42

\* C10: the 8xyN family is executed: 8xy4 leaves (Vx + Vy) mod 256 in Vx
\* and the carry in VF; 8xy5 leaves (Vx - Vy) mod 256 in Vx and 1 in VF
\* iff Vx >= Vy; 8xy6 and 8xyE leave the shifted-out bit in VF; the flag
\* is written last, so for x = F the register VF holds the flag.
C10_AluFamily ==
  [][ (Cycle /\ cycle_fetches(cpu) /\ ~cycle_panics(cpu)
         /\ Nibbles(fetch(cpu).opcode)[1] = 8) =>
        LET x  == Nibbles(fetch(cpu).opcode)[2]
            y  == Nibbles(fetch(cpu).opcode)[3]
            n  == Nibbles(fetch(cpu).opcode)[4]
            vx == cpu.registers[x]
            vy == cpu.registers[y]
        IN /\ n = 4 =>
                /\ cpu'.registers[15] = (IF vx + vy > 255 THEN 1 ELSE 0)
                /\ x # 15 => cpu'.registers[x] = (vx + vy) % 256
           /\ n = 5 =>
                /\ cpu'.registers[15] = (IF vx >= vy THEN 1 ELSE 0)
                /\ x # 15 => cpu'.registers[x] = (vx - vy) % 256
           /\ n = 6 => cpu'.registers[15] \in {vx % 2, vy % 2}
           /\ n = 14 => cpu'.registers[15] \in {vx \div 128, vy \div 128}
    ]_vars

\* C11: a cycle() that executes an opcode 8xy0 is not handled as an unknown
\* opcode, leaves the value of Vy in Vx and changes no other register.
C11_LoadRegister ==
  [][ (Cycle /\ cycle_fetches(cpu) /\ ~cycle_panics(cpu)
         /\ Nibbles(fetch(cpu).opcode)[1] = 8
         /\ Nibbles(fetch(cpu).opcode)[4] = 0) =>
        LET x == Nibbles(fetch(cpu).opcode)[2]
            y == Nibbles(fetch(cpu).opcode)[3]
        IN /\ Decode(fetch(cpu).opcode) # "unknown"
           /\ cpu'.registers = [cpu.registers EXCEPT ![x] = cpu.registers[y]]
    ]_vars

\* C12: a cycle() that fetches an opcode no arm of execute decodes keeps
\* the machine running, leaves PC at the old PC + 2 and leaves V0..VF, I,
\* the stack, SP, the memory and the pixels as they were; the instruction
\* fetched next is the one that follows the unknown opcode.
C12_UnknownOpcodeSkipped ==
  [][ /\ Executes("unknown") =>
           /\ cpu'.running
           /\ cpu'.program_counter = cpu.program_counter + 2
           /\ cpu'.registers = cpu.registers
           /\ cpu'.index_register = cpu.index_register
           /\ cpu'.stack = cpu.stack
           /\ cpu'.stack_pointer = cpu.stack_pointer
           /\ cpu'.memory = cpu.memory
           /\ cpu'.display.pixels = cpu.display.pixels
      /\ (/\ Len(fetch_log) > 0
          /\ Len(fetch_log') > Len(fetch_log)
          /\ Decode(LastFetch[2]) = "unknown") =>
           fetch_log'[Len(fetch_log')][1] = LastFetch[1] + 2
    ]_vars

\* C12 witness: 5011, FFFF and 0123 were fetched and skipped one after the
\* other, and the 6005 behind them has been executed
C12_Witness ==
  /\ rom_path = "unknown"
  /\ Len(fetch_log) = 4
  /\ \A i \in 1..3 : Decode(fetch_log[i][2]) = "unknown"
  /\ LastFetch = <<518, Op(6, 0, 0, 5)>>
  /\ cpu.registers[0] = 5
  /\ cpu.running

\* C13: running goes from true to false only in a cycle() that executes
\* 00FD, every executed 00FD clears it, and once it is false no step of the
\* driver (cycle() and update_timers() included) sets it again.
C13_HaltOnlyBy00FD ==
  [][ /\ (cpu.running /\ ~cpu'.running) => Executes("00fd")
      /\ Executes("00fd") => ~cpu'.running
      /\ ~cpu.running => ~cpu'.running
    ]_vars

\* C13 witness: the 00FD of the keys ROM has stopped the machine and the
\* driver has gone through two more iterations (cycle() and the timer gate)
C13_Witness ==
  /\ rom_path = "keys"
  /\ Len(fetch_log) > 0
  /\ LastFetch[2] = Op(0, 0, 15, 13)
  /\ ~cpu.running
  /\ cycle_count = Len(fetch_log) + 2
  /\ phase = "input"

\* C14: once running is false the driver loop ends by itself: its
\* condition, tested at the head of the next iteration, fails and the loop
\* is left, with no window event needed.  (running is never set again, so
\* a loop that goes round once with running false goes round for ever.)
C14_HaltEndsDriver ==
  [][ (phase = "input" /\ ~cpu.running) => phase' = "finished" ]_vars

\* C15: a cycle() that executes Dxyn reads the sprite rows memory[I + r],
\* r < n, and toggles pixel ((Vx mod 64 + b) mod 64, (Vy mod 32 + r) mod 32)
\* for every set bit b of row r; afterwards VF is 1 if one of those pixels
\* was on before the draw and 0 otherwise, whatever VF held, and
\* needs_redraw is true.
C15_DrawSprite ==
  [][ Executes("dxyn") =>
        LET x    == Nibbles(fetch(cpu).opcode)[2]
            y    == Nibbles(fetch(cpu).opcode)[3]
            n    == Nibbles(fetch(cpu).opcode)[4]
            hits == {<<((cpu.registers[x] % 64) + rb[2]) % 64,
                       ((cpu.registers[y] % 32) + rb[1]) % 32>> :
                       rb \in {q \in (0..(n - 1)) \X (0..7) :
                                 SpriteBit(cpu.memory[cpu.index_register + q[1]],
                                           q[2]) = 1}}
        IN /\ cpu'.display.pixels =
                (cpu.display.pixels \ hits) \cup (hits \ cpu.display.pixels)
           /\ cpu'.registers[15] =
                (IF hits \cap cpu.display.pixels # {} THEN 1 ELSE 0)
           /\ cpu'.display.needs_redraw
    ]_vars

\* C15 witness: the second draw of the sprites ROM, at (64, 30), has gone
\* over the left part of the glyph drawn at (62, 30): the pixels of both
\* at (0, 30) are off again, the others are on, and VF is 1
C15_Witness ==
  /\ rom_path = "sprites"
  /\ phase = "timers"
  /\ Len(fetch_log) = 6
  /\ LastFetch = <<522, Op(13, 2, 1, 5)>>
  /\ cpu.registers[15] = 1
  /\ <<0, 30>> \notin cpu.display.pixels
  /\ <<62, 30>> \in cpu.display.pixels
  /\ <<3, 30>> \in cpu.display.pixels
  /\ <<62, 2>> \in cpu.display.pixels
  /\ cpu.display.needs_redraw

\* C16: drawing the same sprite twice at the same coordinates leaves every
\* pixel as it was before the first draw, wrapped origins, rows and columns
\* included.
C16_DrawTwiceRestores ==
  Len(draw_log) = 2 => screen.pixels = draw_log[1].before

\* C16 witness: a two-row sprite was drawn twice from (63, 31), so that it
\* wraps in both directions, over a screen with (63, 0) lit; the first
\* draw switched that pixel off and (0, 31) on
C16_Witness ==
  /\ Len(draw_log) = 2
  /\ draw_log[1].x = 63
  /\ draw_log[1].y = 31
  /\ draw_log[1].sprite = <<255, 129>>
  /\ <<63, 0>> \in draw_log[1].before
  /\ <<63, 0>> \notin draw_log[2].before
  /\ <<0, 31>> \in draw_log[2].before
  /\ screen.pixels = draw_log[1].before

\* C17: when the same sprite is drawn twice at the same coordinates, the
\* second call returns collision = true exactly when the first call
\* switched at least one pixel on.
C17_SecondDrawCollides ==
  Len(draw_log) = 2 =>
    (draw_log[2].collision <=>
       draw_log[2].before \ draw_log[1].before # {})

\* C17 witness: the one set bit of the sprite drawn at (130, 33) met the
\* lit pixel (2, 1), so the first draw switched nothing on, and the second
\* draw of the same sprite reported no collision
C17_Witness ==
  /\ Len(draw_log) = 2
  /\ draw_log[1].sprite = <<128>>
  /\ draw_log[1].x = 130
  /\ draw_log[1].y = 33
  /\ draw_log[1].collision
  /\ draw_log[2].before = draw_log[1].before \ {<<2, 1>>}
  /\ ~draw_log[2].collision

\* ------------------------------------------------------------------------
\* Shorthands over a compiled program
\* ------------------------------------------------------------------------
\* the 16-bit word of code at address addr
WordAt(code, addr) ==
  code[addr - PROGRAM_START + 1] * 256 + code[addr - PROGRAM_START + 2]

\* an unconditional jump 1nnn
IsJump(word) == word \div 4096 = 1

\* the loop is the last statement of program; the statements before it
Loop == program[Len(program)]
Prefix == SubSeq(program, 1, Len(program) - 1)

\* the bytes of a statement list (none of these contains a jump, so they
\* do not depend on the address they are placed at)
CodeOf(statements) == compile_body(Chip8Backend_new, statements, 1).code

\* the address the loop starts at, and the bytes of code from address addr
LoopAddress == PROGRAM_START + Len(CodeOf(Prefix))
CodeFrom(code, addr, len) ==
  SubSeq(code, addr - PROGRAM_START + 1, addr - PROGRAM_START + len)

\* the first compile of program ended Ok
CompiledOk == Len(outputs) >= 1 /\ outputs[1].ok

\* C18: the code of While(cond, body), cond other than True, is the
\* condition test from address check on, exactly one jump (the exit jump)
\* right before the body, the body, and 1nnn with nnn = check; the exit
\* jump ends up targeting the address right after that back-jump.
C18_WhileLayout ==
  (CompiledOk /\ Loop.kind = "While" /\ Loop.condition.kind # "True") =>
    LET code    == outputs[1].code
        check   == LoopAddress
        back    == PROGRAM_START + Len(code) - 4
        body_at == back - Len(CodeOf(Loop.body))
        exit_at == body_at - 2
    IN /\ exit_at >= check
       /\ \A a \in check..(exit_at - 2) :
            (a - check) % 2 = 0 => ~IsJump(WordAt(code, a))
       /\ exit_at >= check => WordAt(code, exit_at) = Op(1, 0, 0, 0) + back + 2
       /\ CodeFrom(code, body_at, Len(CodeOf(Loop.body))) = CodeOf(Loop.body)
       /\ WordAt(code, back) = Op(1, 0, 0, 0) + check

\* the loop condition is an equality test of a register
EqualityLoop ==
  /\ Len(outputs) = 1
  /\ outputs[1].ok
  /\ Loop.kind = "While"
  /\ Loop.condition \in EqualityConditions

\* the skip opcode compiled for the loop condition, given the first nibble
\* used when the right operand is a number and when it is a register
SkipWord(with_number, with_register) ==
  IF Loop.condition.right.kind = "Number"
    THEN Op(with_number, parse_register(Loop.condition.left.name), 0, 0)
           + Loop.condition.right.n
    ELSE Op(with_register, parse_register(Loop.condition.left.name),
            parse_register(Loop.condition.right.name), 0)

\* the word after the skip is a jump whose address is on the patch list once
FollowedByPlaceholder ==
  /\ IsJump(WordAt(outputs[1].code, LoopAddress + 2))
  /\ Cardinality({i \in 1..Len(backend.patches) :
                    backend.patches[i][1] = LoopAddress + 2}) = 1

\* C19 as stated: the skip emitted for the condition of a While is 4xnn for
\* Equal(vx, n), 3xnn for NotEqual(vx, n), 9xy0 for Equal(vx, vy) and 5xy0
\* for NotEqual(vx, vy), followed by one placeholder jump on the patch list.
C19_SkipOpcodesAsStated ==
  EqualityLoop =>
    /\ WordAt(outputs[1].code, LoopAddress) =
         (IF Loop.condition.kind = "Equal" THEN SkipWord(4, 9)
                                           ELSE SkipWord(3, 5))
    /\ FollowedByPlaceholder

\* C19 amended: the skip is 3xnn for Equal(vx, n), 4xnn for
\* NotEqual(vx, n), 5xy0 for Equal(vx, vy) and 9xy0 for NotEqual(vx, vy),
\* followed by one placeholder jump on the patch list.
C19_SkipOpcodes ==
  EqualityLoop =>
    /\ WordAt(outputs[1].code, LoopAddress) =
         (IF Loop.condition.kind = "Equal" THEN SkipWord(3, 5)
                                           ELSE SkipWord(4, 9))
    /\ FollowedByPlaceholder

\* C19 witness: `while v0 != 5` with an empty body was compiled: 4005 at
\* 0x200, then the placeholder at 0x202, which is the one entry of patches
C19_Witness ==
  /\ program = <<While(NotEqual(Variable(v0), Number(5)), << >>)>>
  /\ Len(outputs) = 1
  /\ outputs[1].ok
  /\ WordAt(outputs[1].code, 512) = Op(4, 0, 0, 5)
  /\ IsJump(WordAt(outputs[1].code, 514))
  /\ backend.patches = << <<514, 0>> >>

\* C20: the code of For(vx, start, end, body) is the code of
\* Assign(vx, start); at loop_start 6Ekk for a number end or 8Ey0 for a
\* register end; 8xE5; 3F01; one exit jump; the body; 7x01; 1nnn with
\* nnn = loop_start; the exit jump targets the address right after that
\* back-jump.  A BinaryOp as end is refused with BackendError.  (kk is a
\* byte: a number end is one of 0..255; wider literals are C37's.)
C20_ForLayout ==
  (/\ Len(outputs) >= 1
   /\ Loop.kind = "For"
   /\ Loop.end.kind = "Number" => Loop.end.n <= 255) =>
    IF Loop.end.kind = "BinaryOp"
      THEN ~outputs[1].ok /\ outputs[1].error = "BackendError"
      ELSE
        LET code       == outputs[1].code
            x          == parse_register(Loop.variable)
            assign     == CodeOf(<<Assign(Loop.variable, Loop.start)>>)
            loop_start == LoopAddress + Len(assign)
            body_at    == loop_start + 8
            step_at    == body_at + Len(CodeOf(Loop.body))
        IN /\ outputs[1].ok
           /\ CodeFrom(code, LoopAddress, Len(assign)) = assign
           /\ WordAt(code, loop_start) =
                (IF Loop.end.kind = "Number"
                   THEN Op(6, 14, 0, 0) + Loop.end.n
                   ELSE Op(8, 14, parse_register(Loop.end.name), 0))
           /\ WordAt(code, loop_start + 2) = Op(8, x, 14, 5)
           /\ WordAt(code, loop_start + 4) = Op(3, 15, 0, 1)
           /\ WordAt(code, loop_start + 6) = Op(1, 0, 0, 0) + step_at + 4
           /\ CodeFrom(code, body_at, Len(CodeOf(Loop.body))) = CodeOf(Loop.body)
           /\ WordAt(code, step_at) = Op(7, x, 0, 1)
           /\ WordAt(code, step_at + 2) = Op(1, 0, 0, 0) + loop_start
           /\ WordAt(code, step_at + 4) = Op(0, 0, 15, 13)
           /\ Len(code) = step_at + 6 - PROGRAM_START

\* C20 witness: `for v1 in range(0, 3): clear()` was compiled to
\* 6100 6E03 81E5 3F01 1210 00E0 7101 1202 00FD
C20_Witness ==
  /\ program = <<For(v1, Number(0), Number(3), <<ClearScreen>>)>>
  /\ Len(outputs) = 1
  /\ outputs[1].ok
  /\ outputs[1].code =
       WordsToBytes(<< Op(6, 1, 0, 0), Op(6, 14, 0, 3), Op(8, 1, 14, 5),
                       Op(3, 15, 0, 1), Op(1, 2, 1, 0), Op(0, 0, 14, 0),
                       Op(7, 1, 0, 1), Op(1, 2, 0, 2), Op(0, 0, 15, 13) >>)

\* the Result of the latest compile call
LastOutput == outputs[Len(outputs)]

\* C21: a compile that returns Ok returns code whose last two bytes are
\* 00 FD, and in that code every placeholder on the patch list reads 1nnn
\* with nnn = 0x200 + the length of the code, the address right after that
\* 00FD.
C21_HaltAndPatches ==
  (Len(outputs) >= 1 /\ LastOutput.ok) =>
    LET code == LastOutput.code
        after_halt == PROGRAM_START + Len(code)
    IN /\ Len(code) >= 2
       /\ WordAt(code, after_halt - 2) = Op(0, 0, 15, 13)
       /\ \A i \in 1..Len(backend.patches) :
            WordAt(code, backend.patches[i][1]) = Op(1, 0, 0, 0) + after_halt

\* C21 witness: `clear(); while v0 > 5: clear()` compiled twice by one
\* backend: 36 bytes ending in 00FD, and both placeholders recorded
\* (0x208 and 0x21A) jump to 0x224
C21_Witness ==
  /\ program = <<ClearScreen,
                 While(Greater(Variable(v0), Number(5)), <<ClearScreen>>)>>
  /\ Len(outputs) = 2
  /\ outputs[2].ok
  /\ Len(outputs[2].code) = 36
  /\ backend.patches = << <<520, 0>>, <<538, 0>> >>
  /\ WordAt(outputs[2].code, 520) = Op(1, 2, 2, 4)
  /\ WordAt(outputs[2].code, 538) = Op(1, 2, 2, 4)
  /\ WordAt(outputs[2].code, 546) = Op(0, 0, 15, 13)

\* the latest patch_jump call, and the jump the specification gives it
LastCall == calls[Len(calls)]
MaskedJump(target) == Op(1, 0, 0, 0) + (target % 4096)

\* C22: patch_jump(addr, target) replaces the two bytes at offset
\* addr - 0x200 by the big-endian bytes of 0x1000 | (target & 0x0FFF), so the
\* first of them has 1 as its top nibble, and changes no other byte; with
\* the offset outside the code it changes nothing.
C22_PatchJump ==
  Len(calls) >= 1 =>
    LET code_index == LastCall.placeholder_address - PROGRAM_START
        jump       == MaskedJump(LastCall.target_address)
    IN IF code_index >= Len(LastCall.before)
         THEN backend.code = LastCall.before
         ELSE /\ backend.code =
                   [LastCall.before EXCEPT
                      ![code_index + 1] = jump \div 256,
                      ![code_index + 2] = jump % 256]
              /\ backend.code[code_index + 1] \div 16 = 1

\* in a program of JumpPrograms, the statements that emit one instruction,
\* the address statement k is compiled at by a fresh backend, and the
\* positions before k where a label is defined
Emits(statement) == statement.kind \in {"ClearScreen", "Assign", "Jump"}
AddressOf(k) ==
  PROGRAM_START + 2 * Cardinality({j \in 1..(k - 1) : Emits(program[j])})
DefinedBefore(name, k) ==
  {j \in 1..(k - 1) : program[j].kind = "Label" /\ program[j].name = name}
LatestOf(positions) == CHOOSE j \in positions : \A i \in positions : i <= j

\* C23: a program of labels, jumps and one-instruction statements compiles
\* Ok on a fresh backend; a Label emits nothing and is recorded in labels
\* with the address it stands at; a Jump to a label defined before it is
\* 1nnn with nnn = the recorded address; a Jump to a label defined later is
\* a jump placeholder whose address is on the patch list.
C23_LabelJump ==
  (program \in JumpPrograms /\ Len(outputs) = 1) =>
    /\ outputs[1].ok
    /\ Len(outputs[1].code) = AddressOf(Len(program) + 1) + 2 - PROGRAM_START
    /\ \A k \in 1..Len(program) :
         /\ program[k].kind = "Label" =>
              /\ program[k].name \in DOMAIN backend.labels
              /\ backend.labels[program[k].name] =
                   AddressOf(LatestOf(DefinedBefore(program[k].name,
                                                    Len(program) + 1)))
         /\ program[k].kind = "Jump" =>
              IF DefinedBefore(program[k].label, k) # {}
                THEN WordAt(outputs[1].code, AddressOf(k)) =
                       Op(1, 0, 0, 0)
                         + AddressOf(LatestOf(DefinedBefore(program[k].label,
                                                            k)))
                ELSE /\ IsJump(WordAt(outputs[1].code, AddressOf(k)))
                     /\ \E i \in 1..Len(backend.patches) :
                          backend.patches[i][1] = AddressOf(k)

\* in a program of AssignPrograms, the assignment and the statements
\* before it; the binary operations compile_binary_op has no case for
TheAssign == program[Len(program) - 1]
BeforeAssign == SubSeq(program, 1, Len(program) - 2)
Unsupported(value) ==
  \/ value.op # "Add"
  \/ value.left.kind = "Number" /\ value.right.kind = "Number"
  \/ value.left.kind = "BinaryOp"
  \/ value.right.kind = "BinaryOp"

\* C24: compiling an Assign whose value is a BinaryOp with an operator
\* other than Add, or an Add of two numbers or with a nested BinaryOp,
\* returns Err(BackendError); nothing is compiled from that statement on.
C24_UnsupportedBinaryOp ==
  (program \in AssignPrograms /\ Len(outputs) = 1
     /\ Unsupported(TheAssign.value)) =>
    /\ ~outputs[1].ok
    /\ outputs[1].error = "BackendError"
    /\ backend.code = CodeOf(BeforeAssign)

\* C25: compiling a While whose condition is Less or KeyPressed returns
\* Err(BackendError), or returns code in which a condition test stands at
\* the loop's address, before the exit jump; it does not return Ok with
\* the exit jump as the loop's first instruction.
C25_LessAndKeyPressed ==
  (Len(outputs) >= 1 /\ Loop.kind = "While"
     /\ Loop.condition.kind \in {"Less", "KeyPressed"}) =>
    IF outputs[1].ok
      THEN ~IsJump(WordAt(outputs[1].code, LoopAddress))
      ELSE outputs[1].error = "BackendError"

\* the timers after the k-th update_timers call
TimersAfter(k) ==
  IF k < Len(calls)
    THEN [delay_timer |-> calls[k + 1].delay_timer,
          sound_timer |-> calls[k + 1].sound_timer]
    ELSE [delay_timer |-> cpu.delay_timer, sound_timer |-> cpu.sound_timer]

\* C26: every update_timers call takes exactly 1 from a positive timer and
\* leaves a timer that is 0 at 0, and it beeps exactly when the sound timer
\* goes from 1 to 0; so from delay_timer = T the timer is 0 after k calls
\* exactly when k >= T.
C26_UpdateTimers ==
  \A k \in 1..Len(calls) :
    /\ TimersAfter(k).delay_timer =
         (IF calls[k].delay_timer > 0 THEN calls[k].delay_timer - 1 ELSE 0)
    /\ TimersAfter(k).sound_timer =
         (IF calls[k].sound_timer > 0 THEN calls[k].sound_timer - 1 ELSE 0)
    /\ calls[k].beep <=>
         (calls[k].sound_timer = 1 /\ TimersAfter(k).sound_timer = 0)
    /\ TimersAfter(k).delay_timer = 0 <=> k >= calls[1].delay_timer

\* C26 witness: from delay_timer = 255 and sound_timer = 2, the second
\* call beeps and no other does, the 255th call brings the delay timer
\* from 1 to 0 and the 256th leaves it at 0
C26_Witness ==
  /\ Len(calls) = 256
  /\ calls[1].delay_timer = 255
  /\ calls[1].sound_timer = 2
  /\ {k \in 1..256 : calls[k].beep} = {2}
  /\ calls[255].delay_timer = 1
  /\ calls[256].delay_timer = 0
  /\ cpu.delay_timer = 0
  /\ cpu.sound_timer = 0

\* C27: when a cycle() that executes Fx15 returns, delay_timer is the
\* value Vx had; when a cycle() that executes Fx18 returns, sound_timer is
\* the value Vx had.
C27_TimerLoads ==
  [][ /\ Executes("fx15") =>
           cpu'.delay_timer = cpu.registers[Nibbles(fetch(cpu).opcode)[2]]
      /\ Executes("fx18") =>
           cpu'.sound_timer = cpu.registers[Nibbles(fetch(cpu).opcode)[2]]
    ]_vars

\* C28: right after a load_rom call that returns Ok, whatever the CPU was
\* before it, the memory from 0x200 on holds the ROM bytes, the memory
\* from 0x050 to 0x09F holds the font, PC = 0x200, SP = 0, every V
\* register is 0 and I = 0.
C28_LoadRomPostState ==
  [][ \A name \in DOMAIN LoadRoms :
        (LoadRom(name) /\ phase' = "loaded") =>
          /\ \A i \in 1..Len(LoadRoms[name]) :
               cpu'.memory[PROGRAM_START + i - 1] = LoadRoms[name][i]
          /\ \A i \in 1..Len(FONT_SET) :
               cpu'.memory[FONT_START + i - 1] = FONT_SET[i]
          /\ cpu'.program_counter = PROGRAM_START
          /\ cpu'.stack_pointer = 0
          /\ \A x \in 0..15 : cpu'.registers[x] = 0
          /\ cpu'.index_register = 0
    ]_vars

\* C29: load_rom returns Ok exactly for the ROMs of at most 3584 bytes; a
\* call that returns Err leaves every field of the CPU as it was; a call
\* that returns Ok changes no memory byte below 0x200 or from
\* 0x200 + len on.
C29_LoadRomBounds ==
  [][ \A name \in DOMAIN LoadRoms :
        LoadRom(name) =>
          /\ phase' = "loaded" <=> Len(LoadRoms[name]) <= 3584
          /\ phase' # "loaded" => cpu' = cpu
          /\ phase' = "loaded" =>
               \A a \in 0..(MEMORY_SIZE - 1) :
                 (a < 512 \/ a >= 512 + Len(LoadRoms[name])) =>
                   cpu'.memory[a] = cpu.memory[a]
    ]_vars

\* C29 witness: the 3584-byte ROM was loaded and fills the memory up to
\* its last byte, then the 3585-byte ROM was refused and the memory still
\* holds the first one
C29_Witness ==
  /\ calls = <<[rom |-> "largest", ok |-> TRUE],
               [rom |-> "oversize", ok |-> FALSE]>>
  /\ phase = "refused"
  /\ cpu.memory[512] = 2
  /\ cpu.memory[4095] = LoadRoms.largest[3584]
  /\ cpu.memory[4095] # 0
  /\ cpu.memory[511] = 0

\* C30: Fx33 leaves in memory[I], memory[I + 1], memory[I + 2] three
\* digits a, b, c, each in 0..9, with 100 a + 10 b + c = Vx, and changes
\* no register, not I, and no other memory byte.
C30_BcdDigits ==
  [][ \A opcode \in ExecOpcodes :
        (Execute(opcode) /\ phase' = "executed"
           /\ Decode(opcode) = "fx33") =>
          LET i == cpu.index_register
              a == cpu'.memory[i]
              b == cpu'.memory[i + 1]
              c == cpu'.memory[i + 2]
          IN /\ {a, b, c} \subseteq 0..9
             /\ 100 * a + 10 * b + c = cpu.registers[Nibbles(opcode)[2]]
             /\ cpu'.registers = cpu.registers
             /\ cpu'.index_register = i
             /\ \A m \in 0..(MEMORY_SIZE - 1) \ {i, i + 1, i + 2} :
                  cpu'.memory[m] = cpu.memory[m]
    ]_vars

\* C30 witness: F033 was executed with V0 = 234 and I = 0x300, and the
\* memory holds 2, 3, 4 from 0x300 on
C30_Witness ==
  /\ phase = "executed"
  /\ calls = <<[opcode |-> Op(15, 0, 3, 3)]>>
  /\ cpu.registers[0] = 234
  /\ cpu.index_register = 768
  /\ cpu.memory[768] = 2
  /\ cpu.memory[769] = 3
  /\ cpu.memory[770] = 4

\* C31: an Fx65 executed after an Fx55 with the same x and I, whatever
\* was loaded into the registers in between, leaves in V0..Vx the values
\* they had at the Fx55; the Fx55 changes no register, the Fx65 no
\* register above Vx, and neither changes I.
C31_StoreThenLoad ==
  [][ /\ \A x \in 0..15 :
           (Store(x) /\ phase' = "stored") =>
             /\ cpu'.registers = cpu.registers
             /\ cpu'.index_register = cpu.index_register
      /\ (Restore /\ phase' = "restored") =>
           /\ \A r \in 0..15 :
                cpu'.registers[r] =
                  (IF r <= Nibbles(calls[1].opcode)[2]
                     THEN calls[1].registers[r] ELSE cpu.registers[r])
           /\ cpu'.index_register = cpu.index_register
    ]_vars

\* C31 witness: FF55 with I = 0xFF0, then V0 and VF were loaded with
\* 0xAA, then FF65 brought back the sixteen values of the FF55
C31_Witness ==
  /\ phase = "restored"
  /\ Len(calls) = 4
  /\ calls[1].opcode = Op(15, 15, 5, 5)
  /\ calls[4].opcode = Op(15, 15, 6, 5)
  /\ cpu.index_register = 4080
  /\ calls[4].registers[0] = 170
  /\ calls[4].registers[15] = 170
  /\ calls[1].registers[0] = 1
  /\ calls[1].registers[15] = 0
  /\ cpu.registers = calls[1].registers
  /\ cpu.memory[4095] = 0
  /\ cpu.memory[4094] = 239

\* whether the condition of a skip opcode holds in CPU c
SkipCondition(c, opcode) ==
  LET x  == Nibbles(opcode)[2]
      y  == Nibbles(opcode)[3]
      kk == opcode % 256
  IN CASE Nibbles(opcode)[1] = 3 -> c.registers[x] = kk
       [] Nibbles(opcode)[1] = 4 -> c.registers[x] # kk
       [] Nibbles(opcode)[1] = 5 -> c.registers[x] = c.registers[y]
       [] Nibbles(opcode)[1] = 9 -> c.registers[x] # c.registers[y]

\* C32: a cycle() that executes 3xkk, 4xkk, 5xy0 or 9xy0 leaves PC at the
\* old PC + 4 when the opcode's condition holds (Vx == kk, Vx != kk,
\* Vx == Vy, Vx != Vy) and at the old PC + 2 otherwise, and changes no
\* register, not I, not the stack and no memory byte.
C32_ConditionalSkips ==
  [][ \A arm \in {"3xkk", "4xkk", "5xy0", "9xy0"} :
        Executes(arm) =>
          /\ cpu'.program_counter =
               cpu.program_counter
                 + (IF SkipCondition(cpu, fetch(cpu).opcode) THEN 4 ELSE 2)
          /\ cpu'.registers = cpu.registers
          /\ cpu'.index_register = cpu.index_register
          /\ cpu'.stack = cpu.stack
          /\ cpu'.stack_pointer = cpu.stack_pointer
          /\ cpu'.memory = cpu.memory
    ]_vars

\* C32 witness: the skips ROM ran to its 00FD: each of the four opcodes
\* skipped the 0000 behind it when its condition held and went on to the
\* next word when it did not
C32_Witness ==
  /\ rom_path = "skips"
  /\ ~cpu.running
  /\ fetch_log =
       << <<512, Op(6, 0, 0, 5)>>, <<514, Op(3, 0, 0, 5)>>,
          <<518, Op(3, 0, 0, 6)>>, <<520, Op(4, 0, 0, 6)>>,
          <<524, Op(4, 0, 0, 5)>>, <<526, Op(6, 1, 0, 5)>>,
          <<528, Op(5, 0, 1, 0)>>, <<532, Op(5, 0, 2, 0)>>,
          <<534, Op(9, 0, 2, 0)>>, <<538, Op(9, 0, 1, 0)>>,
          <<540, Op(0, 0, 15, 13)>> >>

\* the table of the specification: host key, CHIP-8 key
\*   1 2 3 4 -> 1 2 3 C    Q W E R -> 4 5 6 D
\*   A S D F -> 7 8 9 E    Z X C V -> A 0 B F
HostTable ==
  {<<"Key1", 1>>, <<"Key2", 2>>, <<"Key3", 3>>, <<"Key4", 12>>,
   <<"Q", 4>>, <<"W", 5>>, <<"E", 6>>, <<"R", 13>>,
   <<"A", 7>>, <<"S", 8>>, <<"D", 9>>, <<"F", 14>>,
   <<"Z", 10>>, <<"X", 0>>, <<"C", 11>>, <<"V", 15>>}

\* C33: after update_from_minifb(keys), key k is pressed exactly when some
\* host key of `keys` stands for k in the table; so a key pressed before
\* the call and absent from `keys` is released, and a host key outside the
\* table presses nothing.
C33_KeySnapshot ==
  Len(calls) >= 1 =>
    \A k \in 0..15 :
      is_key_pressed(cpu.keyboard, k) <=>
        \E key \in LastCall.keys : <<key, k>> \in HostTable

\* C33 witness: after a snapshot with 4, R and V (keys C, D, F), a
\* snapshot with X and Space leaves key 0 pressed and no other
C33_Witness ==
  /\ Len(calls) = 2
  /\ calls[1].keys = {"Key4", "R", "V"}
  /\ calls[2].keys = {"X", "Space"}
  /\ {k \in 0..15 : is_key_pressed(cpu.keyboard, k)} = {0}

\* C34: Print(vx, vy, d) for a hex digit d compiles to Annn followed by
\* Dxy5, where nnn = 0x050 + 5 d, and that address is the one Fx29 leaves
\* in I when the low nibble of Vx is d.
C34_FontAddresses ==
  (program \in PrintPrograms /\ Len(outputs) >= 1) =>
    LET d == CHOOSE i \in 0..15 : DigitChars[i + 1] = Loop.character
        x == parse_register(Loop.x.name)
        y == parse_register(Loop.y.name)
    IN /\ outputs[1].ok
       /\ WordAt(outputs[1].code, LoopAddress) = Op(10, 0, 0, 0) + 80 + 5 * d
       /\ WordAt(outputs[1].code, LoopAddress + 2) = Op(13, x, y, 5)
       /\ WordAt(outputs[1].code, LoopAddress + 4) = Op(0, 0, 15, 13)
       /\ Len(outputs[1].code) = LoopAddress - PROGRAM_START + 6
       /\ \A high \in {0, 1, 15} :
            op_fx29([CPU_new EXCEPT !.registers[x] = 16 * high + d],
                    x).index_register = 80 + 5 * d

\* C34 witness: `clear(); print(vA, v1, "F")` was compiled to
\* 00E0 A09B DA15 00FD, and 0x09B is where Fx29 points for VA = 0xFF
C34_Witness ==
  /\ program =
       <<ClearScreen, PrintChar(Variable(vA), Variable(v1), "F")>>
  /\ Len(outputs) = 1
  /\ outputs[1].ok
  /\ outputs[1].code =
       WordsToBytes(<< Op(0, 0, 14, 0), Op(10, 0, 9, 11), Op(13, 10, 1, 5),
                       Op(0, 0, 15, 13) >>)
  /\ op_fx29([CPU_new EXCEPT !.registers[10] = 255], 10).index_register
       = 155

\* The opcodes section 4.4 of the specification lists for vx = value
Lowered(x, value) ==
  LET reg(e) == parse_register(e.name)
  IN CASE value.kind = "Number" -> <<Op(6, x, 0, 0) + value.n>>
       [] value.kind = "Variable" -> <<Op(8, x, reg(value), 0)>>
       [] value.left.kind = "Variable" /\ value.right.kind = "Number" ->
            <<Op(8, x, reg(value.left), 0), Op(7, x, 0, 0) + value.right.n>>
       [] value.left.kind = "Number" /\ value.right.kind = "Variable" ->
            <<Op(6, x, 0, 0) + value.left.n, Op(8, x, reg(value.right), 4)>>
       [] OTHER ->
            <<Op(8, x, reg(value.left), 0), Op(8, x, reg(value.right), 4)>>

\* C35: an assignment of a literal 0..255, a register, register + literal,
\* literal + register or register + register compiles to 6xnn, 8xy0,
\* 8xy0 7xnn, 6xnn 8xy4, 8xy0 8xz4 respectively; every opcode is two bytes,
\* high byte first, and current_address advances by 2 for each.
C35_AssignLowering ==
  (program \in LoweringPrograms /\ Len(outputs) >= 1) =>
    LET ws == Lowered(parse_register(Loop.target), Loop.value)
        at == LoopAddress - PROGRAM_START
        code == outputs[1].code
    IN /\ outputs[1].ok
       /\ Len(code) = at + 2 * Len(ws) + 2
       /\ \A i \in 1..Len(ws) :
            /\ code[at + 2 * i - 1] = ws[i] \div 256
            /\ code[at + 2 * i] = ws[i] % 256
       /\ Len(outputs) = 1 =>
            backend.current_address = LoopAddress + 2 * Len(ws) + 2

\* C35 witness: `clear(); vA = 255 + v1` was compiled to the bytes
\* 00 E0 6A FF 8A 14 00 FD, and current_address stands at 0x208
C35_Witness ==
  /\ program =
       <<ClearScreen, Assign(vA, BinaryOp(Number(255), "Add", Variable(v1)))>>
  /\ Len(outputs) = 1
  /\ outputs[1].ok
  /\ outputs[1].code = <<0, 224, 106, 255, 138, 20, 0, 253>>
  /\ backend.current_address = 520

\* C36: whatever the ROM and however many cycles are run, fetch, Dxyn, Fx33,
\* Fx55 and Fx65 index the memory within 0..4095, so that no cycle() aborts
\* the emulator.
C36_NoAbort ==
  phase # "panicked"

\* C37: for every register x and every literal n of 0..65535, the opcode
\* that loads n (into Vx for vx = n, into VE for the bound of a for loop or
\* the operand of a greater-than test) has operation nibble 6 and register
\* nibble x, respectively E.
C37_LiteralLoadFields ==
  (program \in LiteralLoadPrograms /\ Len(outputs) >= 1) =>
    LET load == IF Loop.kind = "For" THEN LoopAddress + 2 ELSE LoopAddress
        reg  == IF Loop.kind = "Assign" THEN parse_register(Loop.target)
                                        ELSE 14
    IN /\ outputs[1].ok
       /\ Nibbles(WordAt(outputs[1].code, load))[1] = 6
       /\ Nibbles(WordAt(outputs[1].code, load))[2] = reg

\* C38: in the bytes of a successful compile, every instruction 1nnn has an
\* even target nnn with 0x200 <= nnn < 0x200 + the length of the output.
C38_JumpTargets ==
  (Len(outputs) >= 1 /\ outputs[1].ok) =>
    LET code == outputs[1].code
    IN \A k \in 0..((Len(code) \div 2) - 1) :
         LET word == WordAt(code, PROGRAM_START + 2 * k)
             nnn  == word % 4096
         IN Nibbles(word)[1] = 1 =>
              /\ nnn % 2 = 0
              /\ PROGRAM_START <= nnn
              /\ nnn < PROGRAM_START + Len(code)

\* C39: compile depends on the Program alone: a second compile of the same
\* Program on the same backend returns what the first returned.
C39_CompileIsAFunction ==
  Len(outputs) >= 2 => outputs[2] = outputs[1]

\* C40: with 8xy5 executed as Vx = Vx - Vy and VF = no borrow, the sequence
\* load VE; 8xE5; 3F01 that the backend emits for the header of a for loop
\* or a greater-than condition changes VE and VF only: Vx and every other
\* register hold after the 3F01 what they held before the load of VE.
C40_ComparisonKeepsRegisters ==
  phase = "compared" =>
    /\ \A r \in 0..13 : cpu.registers[r] = LastCall.registers[r]
    /\ cpu.index_register = LastCall.index_register

====
